---- MODULE Spec2Model ----
(***************************************************************************)
(* labrador-ldpc, src/codes/mod.rs: the expansion of the CCSDS LDPC code   *)
(* descriptions into the dense generator / parity-check matrices and the   *)
(* sparse (ci, cs, vi, vs) representation.                                  *)
(*                                                                         *)
(* The program is stateless; the state of the model is a caller's session: *)
(* the code it selected, the buffers it owns and the calls it has made.    *)
(* A u32 word is modelled as the set of its set bit positions (shifts      *)
(* 0..31), a u16 as a natural number below 65536, a slice as a sequence.   *)
(* The private expanders and their index arithmetic are also applied on    *)
(* their own, to arguments held in `input`, with results in `output`.      *)
(***************************************************************************)
EXTENDS Integers, Sequences, FiniteSets, TLC

VARIABLES code, fill, bad, g, h, ci, cs, vi, vs, calls, status, input, output

vars == <<code, fill, bad, g, h, ci, cs, vi, vs, calls, status, input, output>>

(***************************************************************************)
(* Bounds of the model.                                                    *)
(***************************************************************************)
\* log2 of the sub-matrix size the TC codes are expanded at
TCLogM == 3
\* log2 of the sub-matrix size the TM codes are expanded at
TMLogM == 5
\* calls a session makes at most
MaxCalls == 2

(***************************************************************************)
(* enum LDPCCode and the CodeParams constants.                             *)
(***************************************************************************)
TCCodes == {"TC128", "TC256", "TC512"}

TMCodes == {"TM1280", "TM1536", "TM2048", "TM5120", "TM6144", "TM8192"}

LDPCCode == TCCodes \cup TMCodes

TC128_PARAMS ==
  [n |-> 128, k |-> 64, punctured_bits |-> 0,
   submatrix_size |-> 128 \div 8, circulant_size |-> 128 \div 8,
   paritycheck_sum |-> 512,
   generator_len |-> (64 * (128 - 64)) \div 32,
   paritycheck_len |-> ((128 + 0) * (128 - 64 + 0)) \div 32,
   sparse_paritycheck_ci_len |-> 512,
   sparse_paritycheck_cs_len |-> 128 - 64 + 0 + 1,
   sparse_paritycheck_vi_len |-> 512,
   sparse_paritycheck_vs_len |-> 128 + 0 + 1]

TC256_PARAMS ==
  [n |-> 256, k |-> 128, punctured_bits |-> 0,
   submatrix_size |-> 256 \div 8, circulant_size |-> 256 \div 8,
   paritycheck_sum |-> 1024,
   generator_len |-> (128 * (256 - 128)) \div 32,
   paritycheck_len |-> ((256 + 0) * (256 - 128 + 0)) \div 32,
   sparse_paritycheck_ci_len |-> 1024,
   sparse_paritycheck_cs_len |-> 256 - 128 + 0 + 1,
   sparse_paritycheck_vi_len |-> 1024,
   sparse_paritycheck_vs_len |-> 256 + 0 + 1]

TC512_PARAMS ==
  [n |-> 512, k |-> 256, punctured_bits |-> 0,
   submatrix_size |-> 512 \div 8, circulant_size |-> 512 \div 8,
   paritycheck_sum |-> 2048,
   generator_len |-> (256 * (512 - 256)) \div 32,
   paritycheck_len |-> ((512 + 0) * (512 - 256 + 0)) \div 32,
   sparse_paritycheck_ci_len |-> 2048,
   sparse_paritycheck_cs_len |-> 512 - 256 + 0 + 1,
   sparse_paritycheck_vi_len |-> 2048,
   sparse_paritycheck_vs_len |-> 512 + 0 + 1]

TM1280_PARAMS ==
  [n |-> 1280, k |-> 1024, punctured_bits |-> 128,
   submatrix_size |-> 128, circulant_size |-> 128 \div 4,
   paritycheck_sum |-> 4992,
   generator_len |-> (1024 * (1280 - 1024)) \div 32,
   paritycheck_len |-> ((1280 + 128) * (1280 - 1024 + 128)) \div 32,
   sparse_paritycheck_ci_len |-> 4992,
   sparse_paritycheck_cs_len |-> 1280 - 1024 + 128 + 1,
   sparse_paritycheck_vi_len |-> 4992,
   sparse_paritycheck_vs_len |-> 1280 + 128 + 1]

TM1536_PARAMS ==
  [n |-> 1536, k |-> 1024, punctured_bits |-> 256,
   submatrix_size |-> 256, circulant_size |-> 256 \div 4,
   paritycheck_sum |-> 5888,
   generator_len |-> (1024 * (1536 - 1024)) \div 32,
   paritycheck_len |-> ((1536 + 256) * (1536 - 1024 + 256)) \div 32,
   sparse_paritycheck_ci_len |-> 5888,
   sparse_paritycheck_cs_len |-> 1536 - 1024 + 256 + 1,
   sparse_paritycheck_vi_len |-> 5888,
   sparse_paritycheck_vs_len |-> 1536 + 256 + 1]

TM2048_PARAMS ==
  [n |-> 2048, k |-> 1024, punctured_bits |-> 512,
   submatrix_size |-> 512, circulant_size |-> 512 \div 4,
   paritycheck_sum |-> 7680,
   generator_len |-> (1024 * (2048 - 1024)) \div 32,
   paritycheck_len |-> ((2048 + 512) * (2048 - 1024 + 512)) \div 32,
   sparse_paritycheck_ci_len |-> 7680,
   sparse_paritycheck_cs_len |-> 2048 - 1024 + 512 + 1,
   sparse_paritycheck_vi_len |-> 7680,
   sparse_paritycheck_vs_len |-> 2048 + 512 + 1]

TM5120_PARAMS ==
  [n |-> 5120, k |-> 4096, punctured_bits |-> 512,
   submatrix_size |-> 512, circulant_size |-> 512 \div 4,
   paritycheck_sum |-> 19968,
   generator_len |-> (4096 * (5120 - 4096)) \div 32,
   paritycheck_len |-> ((5120 + 512) * (5120 - 4096 + 512)) \div 32,
   sparse_paritycheck_ci_len |-> 19968,
   sparse_paritycheck_cs_len |-> 5120 - 4096 + 512 + 1,
   sparse_paritycheck_vi_len |-> 19968,
   sparse_paritycheck_vs_len |-> 5120 + 512 + 1]

TM6144_PARAMS ==
  [n |-> 6144, k |-> 4096, punctured_bits |-> 1024,
   submatrix_size |-> 1024, circulant_size |-> 1024 \div 4,
   paritycheck_sum |-> 23552,
   generator_len |-> (4096 * (6144 - 4096)) \div 32,
   paritycheck_len |-> ((6144 + 1024) * (6144 - 4096 + 1024)) \div 32,
   sparse_paritycheck_ci_len |-> 23552,
   sparse_paritycheck_cs_len |-> 6144 - 4096 + 1024 + 1,
   sparse_paritycheck_vi_len |-> 23552,
   sparse_paritycheck_vs_len |-> 6144 + 1024 + 1]

TM8192_PARAMS ==
  [n |-> 8192, k |-> 4096, punctured_bits |-> 2048,
   submatrix_size |-> 2048, circulant_size |-> 2048 \div 4,
   paritycheck_sum |-> 30720,
   generator_len |-> (4096 * (8192 - 4096)) \div 32,
   paritycheck_len |-> ((8192 + 2048) * (8192 - 4096 + 2048)) \div 32,
   sparse_paritycheck_ci_len |-> 30720,
   sparse_paritycheck_cs_len |-> 8192 - 4096 + 2048 + 1,
   sparse_paritycheck_vi_len |-> 30720,
   sparse_paritycheck_vs_len |-> 8192 + 2048 + 1]

\* LDPCCode::params
params(c) ==
  CASE c = "TC128"  -> TC128_PARAMS
    [] c = "TC256"  -> TC256_PARAMS
    [] c = "TC512"  -> TC512_PARAMS
    [] c = "TM1280" -> TM1280_PARAMS
    [] c = "TM1536" -> TM1536_PARAMS
    [] c = "TM2048" -> TM2048_PARAMS
    [] c = "TM5120" -> TM5120_PARAMS
    [] c = "TM6144" -> TM6144_PARAMS
    [] c = "TM8192" -> TM8192_PARAMS

(***************************************************************************)
(* A code as the methods see it (self): the variant and the six parameters *)
(* the accessors n(), k(), punctured_bits(), ... return.  RealCode(c) is   *)
(* the code itself.  ModelCode(c) is the same code with every dimension    *)
(* divided by one factor, so that n, k, p and paritycheck_sum keep their   *)
(* ratios to the sub-matrix size: the expansions below are run on it.      *)
(***************************************************************************)
Scaled(c, p, m) ==
  [variant |-> c, table_m |-> p.submatrix_size,
   n |-> (p.n * m) \div p.submatrix_size, k |-> (p.k * m) \div p.submatrix_size,
   punctured_bits |-> (p.punctured_bits * m) \div p.submatrix_size,
   submatrix_size |-> m,
   circulant_size |-> (p.circulant_size * m) \div p.submatrix_size,
   paritycheck_sum |-> (p.paritycheck_sum * m) \div p.submatrix_size]

\* an accessor that returns the circulant size for the sub-matrix size
CirculantAsSubmatrix(p) == p.circulant_size

RealSubmatrix(p) == p.submatrix_size

RealCode(c) == Scaled(c, params(c), RealSubmatrix(params(c)))

ModelSubmatrix(c) == IF c \in TCCodes THEN 2 ^ TCLogM ELSE 2 ^ TMLogM

ModelCode(c) == Scaled(c, params(c), ModelSubmatrix(c))

\* LDPCCode::generator_len .. sparse_paritycheck_vs_len
generator_len(self) == (self.k * (self.n - self.k)) \div 32

\* a length that leaves the punctured bits out
paritycheck_len_unpunctured(self) == (self.n * (self.n - self.k)) \div 32

paritycheck_len(self) ==
  ((self.n + self.punctured_bits) * (self.n - self.k + self.punctured_bits)) \div 32

sparse_paritycheck_ci_len(self) == self.paritycheck_sum

sparse_paritycheck_cs_len(self) == self.n - self.k + self.punctured_bits + 1

sparse_paritycheck_vi_len(self) == self.paritycheck_sum

sparse_paritycheck_vs_len(self) == self.n + self.punctured_bits + 1

(***************************************************************************)
(* Slices and words.                                                       *)
(***************************************************************************)
\* slice[i] with the 0-based index of the source
At(slice, i) == slice[i + 1]

\* the concatenation F(lo) \o ... \o F(hi): the elements a loop over lo..hi
\* emits in order
RECURSIVE Cat(_, _, _)
Cat(F(_), lo, hi) ==
  IF lo > hi THEN <<>>
  ELSE IF lo = hi THEN F(lo)
  ELSE LET mid == (lo + hi) \div 2
       IN Cat(F, lo, mid) \o Cat(F, mid + 1, hi)

\* F(... F(F(acc, lo), lo+1) ..., hi): a loop over lo..hi that updates acc
RECURSIVE Fold(_, _, _, _)
Fold(F(_, _), acc, lo, hi) ==
  IF lo > hi THEN acc
  ELSE IF lo = hi THEN F(acc, lo)
  ELSE LET mid == (lo + hi) \div 2
           left == Fold(F, acc, lo, mid)
       IN \* the test evaluates the first half before the second starts
          IF left = left THEN Fold(F, left, mid + 1, hi) ELSE acc

\* a slice of len elements, each equal to x
Filled(len, x) == Cat(LAMBDA t: <<x>>, 1, len)

\* what a loop over lo..hi appends, F(r) for each r, with the position at
\* which each r started appending (the running counter on entry to r)
RECURSIVE Appended(_, _, _)
Appended(F(_), lo, hi) ==
  IF lo > hi THEN [items |-> <<>>, starts |-> <<>>]
  ELSE IF lo = hi THEN [items |-> F(lo), starts |-> <<0>>]
  ELSE LET mid == (lo + hi) \div 2
           a == Appended(F, lo, mid)
           b == Appended(F, mid + 1, hi)
           d == Len(a.items)
       IN [items |-> a.items \o b.items,
           starts |-> a.starts \o Cat(LAMBDA t: <<b.starts[t] + d>>, 1, Len(b.starts))]

\* w | (1 << shift) and w ^ (1 << shift) on a word held as its set of set bits
OrBit(w, shift) == w \cup {shift}

XorBit(w, shift) == IF shift \in w THEN w \ {shift} ELSE w \cup {shift}

\* hh.count_ones()
count_ones(w) == Cardinality(w)

\* the bit of row r, column v of a packed matrix with cols columns: word
\* r*(cols/32) + v/32, shift 31 - v%32
MatrixBit(mat, cols, r, v) ==
  (31 - (v % 32)) \in At(mat, (r * (cols \div 32)) + (v \div 32))

(***************************************************************************)
(* compact_parity_checks: the prototype cells and tables.  The module is   *)
(* not part of the sources at hand; the tables are those of CCSDS          *)
(* 231.1-O-1 and 131.0-B-2.  The TC tables reproduce the CRC-32 anchors of *)
(* tests::test_parity_matrix and tests::test_sparse_paritycheck at full    *)
(* size, and the TM overlays their cs and vs anchors.                      *)
(***************************************************************************)
HI == 64

HP == 128

HS == HI + HP

\* subm & flag == flag, for a one-bit flag
HasFlag(subm, flag) == (subm \div flag) % 2 = 1

\* subm & 0x3F
Low6(subm) == subm % 64

TC128_H ==
  << <<HS + 7,  HP + 2,  HP + 14, HP + 6,  0,       HP + 0,  HP + 13, HI>>,
     <<HP + 6,  HS + 15, HP + 0,  HP + 1,  HI,      0,       HP + 0,  HP + 7>>,
     <<HP + 4,  HP + 1,  HS + 15, HP + 14, HP + 11, HI,      0,       HP + 3>>,
     <<HP + 0,  HP + 1,  HP + 9,  HS + 13, HP + 14, HP + 1,  HI,      0>> >>

TC256_H ==
  << <<HS + 31, HP + 15, HP + 25, HP + 0,  0,       HP + 20, HP + 12, HI>>,
     <<HP + 28, HS + 30, HP + 29, HP + 24, HI,      0,       HP + 1,  HP + 20>>,
     <<HP + 8,  HP + 0,  HS + 28, HP + 1,  HP + 29, HI,      0,       HP + 21>>,
     <<HP + 18, HP + 30, HP + 0,  HS + 30, HP + 25, HP + 26, HI,      0>> >>

TC512_H ==
  << <<HS + 63, HP + 30, HP + 50, HP + 25, 0,       HP + 43, HP + 62, HI>>,
     <<HP + 56, HS + 61, HP + 50, HP + 23, HI,      0,       HP + 37, HP + 26>>,
     <<HP + 16, HP + 0,  HS + 55, HP + 27, HP + 56, HI,      0,       HP + 43>>,
     <<HP + 35, HP + 56, HP + 62, HS + 11, HP + 58, HP + 3,  HI,      0>> >>

\* [[[u8; 5]; 3]; 3]: three planes of three rows of five cells
TM_R12_H ==
  << << <<0,  0,      HI, 0,      HI>>,
        <<HI, HI,     0,  HI,     HP + 2>>,
        <<HI, HP + 5, 0,  HP + 7, HI>> >>,
     << <<0,  0,      0,  0,      HP + 1>>,
        <<0,  0,      0,  0,      HP + 3>>,
        <<0,  HP + 6, 0,  HP + 8, 0>> >>,
     << <<0,  0,      0,  0,      0>>,
        <<0,  0,      0,  0,      HP + 4>>,
        <<0,  0,      0,  0,      0>> >> >>

TM_R23_H ==
  << << <<0,       0,       0, 0, 0>>,
        <<HP + 9,  HI,      0, 0, 0>>,
        <<HI,      HP + 12, 0, 0, 0>> >>,
     << <<0,       0,       0, 0, 0>>,
        <<HP + 10, 0,       0, 0, 0>>,
        <<0,       HP + 13, 0, 0, 0>> >>,
     << <<0,       0,       0, 0, 0>>,
        <<HP + 11, 0,       0, 0, 0>>,
        <<0,       HP + 14, 0, 0, 0>> >> >>

TM_R45_H ==
  << << <<0,       0,       0,       0,       0>>,
        <<HP + 21, HI,      HP + 15, HI,      0>>,
        <<HI,      HP + 24, HI,      HP + 18, 0>> >>,
     << <<0,       0,       0,       0,       0>>,
        <<HP + 22, 0,       HP + 16, 0,       0>>,
        <<0,       HP + 25, 0,       HP + 19, 0>> >>,
     << <<0,       0,       0,       0,       0>>,
        <<HP + 23, 0,       HP + 17, 0,       0>>,
        <<0,       HP + 26, 0,       HP + 20, 0>> >> >>

\* the three overlays init_paritycheck_tm and init_sparse_paritycheck_checks_tm
\* read
TmTables == [r12 |-> TM_R12_H, r23 |-> TM_R23_H, r45 |-> TM_R45_H]

THETA_K ==
  <<3, 0, 1, 2, 2, 3, 0, 1, 0, 1, 2, 0, 2, 3, 0, 1, 2, 0, 1, 2, 0, 1, 2, 1, 2, 3>>

\* The phi tables PHI_J_K_M128 .. PHI_J_K_M8192, [[u16; 26]; 4] each, are
\* opaque inputs: the entry [j][k-1] of the table for sub-matrix size mreal
\* stands for an arbitrary value, a different one per table, row and k.
PHI_J_K(mreal, j, k) == ((mreal \div 128) * 3 + 5 * j * k + 7 * k + j) % 61

(***************************************************************************)
(* Integer idioms of the source.                                           *)
(***************************************************************************)
\* m.is_power_of_two()
is_power_of_two(m) == \E e \in 0..30 : m = 2 ^ e

\* m.trailing_zeros(), for m > 0
trailing_zeros(m) == CHOOSE e \in 0..30 : m % (2 ^ e) = 0 /\ (m \div (2 ^ e)) % 2 = 1

\* x >> s
ShiftRight(x, s) == x \div (2 ^ s)

\* x & mask, for a mask 2^e - 1 (modm, modmd4)
BitAndMask(x, mask) == x % (mask + 1)

\* x as u8
AsU8(x) == x % 256

\* x as u16
AsU16(x) == x % 65536

(***************************************************************************)
(* The dense parity-check matrix.  An expander is the sequence of the      *)
(* writes its loops make to h, in program order, applied to h.             *)
(***************************************************************************)
\* h[idx] |= 1 << shift   and   h[idx] ^= 1 << shift
ApplyWrite(hh, w) ==
  IF w.idx < Len(hh) /\ w.shift \in 0..31
  THEN [hh EXCEPT ![w.idx + 1] =
          IF w.op = "or" THEN OrBit(@, w.shift) ELSE XorBit(@, w.shift)]
  ELSE hh

ApplyWrites(hh, writes) ==
  Fold(LAMBDA acc, t : ApplyWrite(acc, writes[t]), hh, 1, Len(writes))

\* init_paritycheck_tc: the prototype of the code
TcPrototype(self) ==
  CASE self.variant = "TC128" -> TC128_H
    [] self.variant = "TC256" -> TC256_H
    [] self.variant = "TC512" -> TC512_H

\* a shift that leaves out the packing of several sub-matrix columns into one
\* word when m < 32
TcShiftUnpacked(self, v, j) == 31 - (j % 32)

\* an idx that leaves out the words of the sub-matrix columns to the left
TcIdxFirstColumn(self, u, v, i, j) ==
  (((u * self.submatrix_size) + i) * (self.n \div 32)) + (j \div 32)

\* init_paritycheck_tc: idx and shift of bit j of row i of sub-matrix (u, v)
TcIdx(self, u, v, i, j) ==
  (((u * self.submatrix_size) + i) * (self.n \div 32))
    + ((v * self.submatrix_size) \div 32) + (j \div 32)

TcShift(self, v, j) ==
  LET m == self.submatrix_size
  IN (31 - (j % 32)) - (IF m < 32 THEN m * (v % (32 \div m)) ELSE 0)

\* a cell body whose second term is set with OR as the first is
TcCellWritesOrOnly(self, subm, u, v) ==
  IF HasFlag(subm, HP) \/ HasFlag(subm, HI)
  THEN Cat(LAMBDA i :
         Cat(LAMBDA j :
           IF \/ j = BitAndMask(i + Low6(subm), self.submatrix_size - 1)
              \/ (HasFlag(subm, HI) /\ HasFlag(subm, HP)
                    /\ j = BitAndMask(i, self.submatrix_size - 1))
           THEN << [idx |-> TcIdx(self, u, v, i, j), shift |-> TcShift(self, v, j),
                    op |-> "or"] >>
           ELSE <<>>,
           0, self.submatrix_size - 1),
         0, self.submatrix_size - 1)
  ELSE <<>>

\* init_paritycheck_tc: the body of the loops over i and j for one cell
TcCellWrites(self, subm, u, v) ==
  IF HasFlag(subm, HP) \/ HasFlag(subm, HI)
  THEN LET m == self.submatrix_size
           modm == m - 1
           rot == Low6(subm)
           at(i, j, op) == [idx |-> TcIdx(self, u, v, i, j),
                            shift |-> TcShift(self, v, j), op |-> op]
       IN Cat(LAMBDA i :
            Cat(LAMBDA j :
              (IF j = BitAndMask(i + rot, modm) THEN <<at(i, j, "or")>> ELSE <<>>)
              \o (IF HasFlag(subm, HI) /\ HasFlag(subm, HP) /\ j = BitAndMask(i, modm)
                  THEN <<at(i, j, "xor")>> ELSE <<>>),
              0, m - 1),
            0, m - 1)
  ELSE <<>>

TcWrites(self, prototype) ==
  Cat(LAMBDA u :
    Cat(LAMBDA v : TcCellWrites(self, At(At(prototype, u), v), u, v),
        0, Len(At(prototype, u)) - 1),
    0, Len(prototype) - 1)

\* init_paritycheck_tc on the prototype given
ExpandTc(self, prototype, hh) == ApplyWrites(hh, TcWrites(self, prototype))

\* init_paritycheck_tm_sub: phi_j_k[j][k-1] of the table matched on m.  The
\* table is the one of the variant's sub-matrix size.
PhiJK(self, j, k) == PHI_J_K(self.table_m, j, k)

\* the column phi_j_k[0..3][k-1] of the table matched on m
PhiColumn(self, k) ==
  <<PhiJK(self, 0, k), PhiJK(self, 1, k), PhiJK(self, 2, k), PhiJK(self, 3, k)>>

\* a pi whose second term is not reduced modulo m/4
PiDenseOfUnreduced(m, theta, phi, i) ==
  (m \div 4) * ((theta + ((4 * i) \div m)) % 4) + (At(phi, (4 * i) \div m) + i)

\* init_paritycheck_tm_sub: pi(i), where theta is theta_k[k-1] and phi the
\* four entries phi_j_k[0..3][k-1]
PiDenseOf(m, theta, phi, i) ==
  (m \div 4) * ((theta + ((4 * i) \div m)) % 4)
    + ((At(phi, (4 * i) \div m) + i) % (m \div 4))

\* init_paritycheck_tm_sub: pi(i) for selector k
PiDense(self, k, i) ==
  PiDenseOf(self.submatrix_size, THETA_K[k], PhiColumn(self, k), i)

\* an idx that does not skip to the overlay's first column
TmIdxNoCol0(self, col0, hcols, v, w, i, j) ==
  ((v * self.submatrix_size * hcols) \div 32) + ((i * hcols) \div 32)
    + ((w * self.submatrix_size) \div 32) + (j \div 32)

\* init_paritycheck_tm_sub: idx and shift of bit j of row i of cell (v, w)
TmIdx(self, col0, hcols, v, w, i, j) ==
  ((v * self.submatrix_size * hcols) \div 32) + ((i * hcols) \div 32)
    + (col0 \div 32) + ((w * self.submatrix_size) \div 32) + (j \div 32)

TmShift(j) == 31 - (j % 32)

TmCellWrites(self, col0, hcols, subm, v, w) ==
  IF HasFlag(subm, HP) \/ HasFlag(subm, HI)
  THEN Cat(LAMBDA i :
         LET j == IF HasFlag(subm, HP) THEN PiDense(self, Low6(subm), i) ELSE i
         IN << [idx |-> TmIdx(self, col0, hcols, v, w, i, j),
                shift |-> TmShift(j), op |-> "xor"] >>,
         0, self.submatrix_size - 1)
  ELSE <<>>

\* init_paritycheck_tm_sub
init_paritycheck_tm_sub(self, hh, col0, pwidth, hcols, prototype) ==
  ApplyWrites(hh,
    Cat(LAMBDA pm :
      Cat(LAMBDA v :
        Cat(LAMBDA w :
          TmCellWrites(self, col0, hcols, At(At(At(prototype, pm), v), w), v, w),
          0, pwidth - 1),
        0, Len(At(prototype, pm)) - 1),
      0, Len(prototype) - 1))

\* the arguments of one call of init_paritycheck_tm_sub
TmSubCall(col0, pwidth, hcols, prototype) ==
  [col0 |-> col0, pwidth |-> pwidth, hcols |-> hcols, prototype |-> prototype]

\* calls that lay the rate 1/2 overlay alone, whatever the code
TmSubCallsHalfRateOnly(self, tables) ==
  << TmSubCall(0, 5, 5 * self.submatrix_size, tables.r12) >>

\* init_paritycheck_tm: the calls of init_paritycheck_tm_sub the match on
\* *self makes, in order
TmSubCalls(self, tables) ==
  LET m == self.submatrix_size
  IN CASE self.variant \in {"TM2048", "TM8192"} ->
            << TmSubCall(0, 5, 5 * m, tables.r12) >>
       [] self.variant \in {"TM1536", "TM6144"} ->
            << TmSubCall(2 * m, 5, 7 * m, tables.r12),
               TmSubCall(0, 2, 7 * m, tables.r23) >>
       [] self.variant \in {"TM1280", "TM5120"} ->
            << TmSubCall(6 * m, 5, 11 * m, tables.r12),
               TmSubCall(4 * m, 2, 11 * m, tables.r23),
               TmSubCall(0, 4, 11 * m, tables.r45) >>

ExpandTmCalls(self, hh, subcalls) ==
  Fold(LAMBDA acc, t :
         init_paritycheck_tm_sub(self, acc, subcalls[t].col0, subcalls[t].pwidth,
                                 subcalls[t].hcols, subcalls[t].prototype),
       hh, 1, Len(subcalls))

\* init_paritycheck_tm on the overlays given
ExpandTm(self, tables, hh) == ExpandTmCalls(self, hh, TmSubCalls(self, tables))

(***************************************************************************)
(* The sparse representation: the check side.                              *)
(***************************************************************************)
\* a loop over variable that leaves out the identity branch
TcCheckRowRotatedOnly(self, prototype, check) ==
  Cat(LAMBDA variable :
    IF /\ HasFlag(At(At(prototype, ShiftRight(check, trailing_zeros(self.submatrix_size))),
                     ShiftRight(variable, trailing_zeros(self.submatrix_size))), HP)
       /\ BitAndMask(variable, self.submatrix_size - 1)
            = BitAndMask(BitAndMask(check, self.submatrix_size - 1)
                           + Low6(At(At(prototype,
                                        ShiftRight(check, trailing_zeros(self.submatrix_size))),
                                     ShiftRight(variable, trailing_zeros(self.submatrix_size)))),
                         self.submatrix_size - 1)
    THEN <<AsU16(variable)>> ELSE <<>>,
    0, self.n - 1)

\* init_sparse_paritycheck_checks_tc: what the loop over variable appends to
\* ci for one check
TcCheckRow(self, prototype, check) ==
  LET m == self.submatrix_size
      modm == m - 1
      divm == trailing_zeros(m)
      check_block == ShiftRight(check, divm)
      block_check == BitAndMask(check, modm)
  IN Cat(LAMBDA variable :
       LET variable_block == ShiftRight(variable, divm)
           block_variable == BitAndMask(variable, modm)
           subm == At(At(prototype, check_block), variable_block)
           rot == Low6(subm)
       IN (IF HasFlag(subm, HI) /\ block_variable = block_check
           THEN <<AsU16(variable)>> ELSE <<>>)
          \o (IF HasFlag(subm, HP) /\ block_variable = BitAndMask(block_check + rot, modm)
              THEN <<AsU16(variable)>> ELSE <<>>),
       0, self.n - 1)

\* a selection of the overlay that leaves variable_block as it is
TmOverlayUnshifted(tables, q, variable_block) ==
  CASE q = 5  -> [prototype |-> tables.r12, offset |-> 0]
    [] q = 7  -> IF variable_block < 2
                 THEN [prototype |-> tables.r23, offset |-> 0]
                 ELSE [prototype |-> tables.r12, offset |-> 0]
    [] q = 11 -> IF variable_block < 4
                 THEN [prototype |-> tables.r45, offset |-> 0]
                 ELSE IF variable_block < 6
                      THEN [prototype |-> tables.r23, offset |-> 0]
                      ELSE [prototype |-> tables.r12, offset |-> 0]

\* init_sparse_paritycheck_checks_tm: the prototype and variable_block_offset
\* matched on (n + p) / m
TmOverlay(tables, q, variable_block) ==
  CASE q = 5  -> [prototype |-> tables.r12, offset |-> 0]
    [] q = 7  -> IF variable_block < 2
                 THEN [prototype |-> tables.r23, offset |-> 0]
                 ELSE [prototype |-> tables.r12, offset |-> 2]
    [] q = 11 -> IF variable_block < 4
                 THEN [prototype |-> tables.r45, offset |-> 0]
                 ELSE IF variable_block < 6
                      THEN [prototype |-> tables.r23, offset |-> 4]
                      ELSE [prototype |-> tables.r12, offset |-> 6]

\* a permutation that leaves out theta_k
PiSparseNoTheta(self, k, block_check) ==
  ((self.submatrix_size \div 4) * (ShiftRight(4 * block_check, trailing_zeros(self.submatrix_size)) % 4))
    + BitAndMask(PhiJK(self, ShiftRight(4 * block_check, trailing_zeros(self.submatrix_size)), k)
                   + block_check,
                 (self.submatrix_size \div 4) - 1)

\* init_sparse_paritycheck_checks_tm: pi_i, where theta is theta_k[k-1] and
\* phi the four entries phi_j_k[0..3][k-1]
PiSparseOf(m, theta, phi, block_check) ==
  LET divm == trailing_zeros(m)
      modmd4 == (m \div 4) - 1
  IN (m \div 4) * ((theta + ShiftRight(4 * block_check, divm)) % 4)
       + BitAndMask(At(phi, ShiftRight(4 * block_check, divm)) + block_check, modmd4)

\* init_sparse_paritycheck_checks_tm: pi(i) for selector k
PiSparse(self, k, block_check) ==
  PiSparseOf(self.submatrix_size, THETA_K[k], PhiColumn(self, k), block_check)

\* a pbit that takes the first plane alone
TmPbitFirstPlane(self, cells, block_check, block_variable, pl) ==
  IF HasFlag(cells[1], HI) THEN (IF block_variable = block_check THEN 1 ELSE 0)
  ELSE IF HasFlag(cells[1], HP)
       THEN (IF block_variable = PiSparse(self, Low6(cells[1]), block_check) THEN 1 ELSE 0)
       ELSE 0

\* init_sparse_paritycheck_checks_tm: pbit after the loop over the planes,
\* which stops at the first plane whose cell is 0
RECURSIVE TmPbit(_, _, _, _, _)
TmPbit(self, cells, block_check, block_variable, pl) ==
  IF pl > Len(cells) THEN 0
  ELSE LET subm == cells[pl]
       IN IF subm = 0 THEN 0
          ELSE IF HasFlag(subm, HI)
               THEN ((IF block_variable = block_check THEN 1 ELSE 0)
                     + TmPbit(self, cells, block_check, block_variable, pl + 1)) % 2
          ELSE IF HasFlag(subm, HP)
               THEN ((IF block_variable = PiSparse(self, Low6(subm), block_check)
                      THEN 1 ELSE 0)
                     + TmPbit(self, cells, block_check, block_variable, pl + 1)) % 2
          ELSE TmPbit(self, cells, block_check, block_variable, pl + 1)

\* init_sparse_paritycheck_checks_tm: what the loops over variable_block and
\* block_variable append to ci for one check
TmCheckRow(self, tables, check) ==
  LET m == self.submatrix_size
      modm == m - 1
      divm == trailing_zeros(m)
      q == (self.n + self.punctured_bits) \div m
      block_check == BitAndMask(check, modm)
  IN Cat(LAMBDA variable_block :
       LET ov == TmOverlay(tables, q, variable_block)
           cells == Cat(LAMBDA pl :
                      <<At(At(At(ov.prototype, pl), ShiftRight(check, divm)),
                           variable_block - ov.offset)>>,
                      0, Len(ov.prototype) - 1)
       IN Cat(LAMBDA block_variable :
            IF TmPbit(self, cells, block_check, block_variable, 1) = 1
            THEN <<AsU16((variable_block * m) + block_variable)>> ELSE <<>>,
            0, m - 1),
       0, q - 1)

\* The writes of a builder that appends `app.items` to `idx` through a running
\* counter and records the counter in `starts` on entry to each row and once
\* more at the end.  An append past the end of idx is an index panic: the
\* rows entered so far have their start recorded, the final entry is not.
WriteAppended(app, idx, starts) ==
  LET total == Len(app.items)
      rows == Len(app.starts)
  IN IF total <= Len(idx)
     THEN [status |-> "ok",
           idx |-> app.items \o SubSeq(idx, total + 1, Len(idx)),
           starts |-> Cat(LAMBDA t : <<AsU16(app.starts[t])>>, 1, rows)
                        \o <<AsU16(total)>> \o SubSeq(starts, rows + 2, Len(starts))]
     ELSE LET entered == Cardinality({t \in 1..rows : app.starts[t] <= Len(idx)})
          IN [status |-> "index_panic",
              idx |-> SubSeq(app.items, 1, Len(idx)),
              starts |-> Cat(LAMBDA t : <<AsU16(app.starts[t])>>, 1, entered)
                           \o SubSeq(starts, entered + 1, Len(starts))]

\* init_sparse_paritycheck_checks_tc: the rows the loop over check appends
TcRows(self, prototype) ==
  Appended(LAMBDA check : TcCheckRow(self, prototype, check), 0, self.n - self.k - 1)

\* init_sparse_paritycheck_checks_tm: the rows the loop over check appends
TmRows(self, tables) ==
  Appended(LAMBDA check : TmCheckRow(self, tables, check),
           0, self.n - self.k + self.punctured_bits - 1)

(***************************************************************************)
(* The sparse representation: the variable side.                           *)
(***************************************************************************)
\* a pass over the checks from the last to the first
VariableColumnDescending(ci0, cs0, variable, last) ==
  Cat(LAMBDA t :
    Filled(Cardinality({x \in At(cs0, last - t)..(At(cs0, (last - t) + 1) - 1) :
                          At(ci0, x) = variable}),
           AsU16(last - t)),
    0, last)

\* a pass that lists a check once however often the variable occurs in it
VariableColumnOnce(ci0, cs0, variable, last) ==
  Cat(LAMBDA check :
    IF \E x \in At(cs0, check)..(At(cs0, check + 1) - 1) : At(ci0, x) = variable
    THEN <<AsU16(check)>> ELSE <<>>,
    0, last)

\* init_sparse_paritycheck_variables: what the loops over the checks
\* 0..last and over ci[cs[check]..cs[check+1]] append to vi for one variable
VariableColumn(ci0, cs0, variable, last) ==
  Cat(LAMBDA check :
    Filled(Cardinality({t \in At(cs0, check)..(At(cs0, check + 1) - 1) :
                          At(ci0, t) = variable}),
           AsU16(check)),
    0, last)

\* the windows of cs whose slice ci[cs_ss[0]..cs_ss[1]] is out of range
BadWindows(ci0, cs0) ==
  {check \in 0..(Len(cs0) - 2) :
     At(cs0, check) > At(cs0, check + 1) \/ At(cs0, check + 1) > Len(ci0)}

\* init_sparse_paritycheck_variables: the columns the loop over variable
\* appends, when no slice of ci is out of range
Columns(self, ci0, cs0) ==
  Appended(LAMBDA variable : VariableColumn(ci0, cs0, variable, Len(cs0) - 2),
           0, self.n + self.punctured_bits - 1)

FirstOf(set) == CHOOSE c \in set : \A d \in set : c <= d

FirstPanicVi(got, vi0) ==
  IF Len(got) <= Len(vi0)
  THEN got \o SubSeq(vi0, Len(got) + 1, Len(vi0))
  ELSE SubSeq(got, 1, Len(vi0))

(***************************************************************************)
(* compact_generators and the expansion the documentation of the module    *)
(* describes.  The module is not part of the sources at hand: CompactBit   *)
(* stands for bit j of the first row of circulant row-block b, an opaque   *)
(* input of which only the layout matters here.                            *)
(***************************************************************************)
CompactBit(self, b, j) == ((3 * b) + (5 * j) + (j \div self.circulant_size)) % 7 \in {0, 2, 3}

\* bit (r, j) of the full matrix: row r of a block is the block's first row
\* rotated right by r % C within each C-bit column sub-block
GeneratorBit(self, r, j) ==
  LET c == self.circulant_size
  IN CompactBit(self, r \div c, ((j \div c) * c) + ((((j % c) - (r % c)) + c) % c))

\* the k x (n-k) parity part of the generator, packed row-major, MSB first
ExpandGenerator(self) ==
  LET cols == self.n - self.k
  IN Cat(LAMBDA r :
       Cat(LAMBDA wd : << {31 - (j % 32) : j \in {x \in (wd * 32)..((wd * 32) + 31) :
                                                   GeneratorBit(self, r, x)}} >>,
           0, (cols \div 32) - 1),
       0, self.k - 1)

(***************************************************************************)
(* The public operations.  Each returns the status of the call and the     *)
(* buffers as the call leaves them.                                        *)
(***************************************************************************)
\* an init_generator that writes the expansion of the compact generator
init_generator_expanding(self, gg) ==
  IF Len(gg) # generator_len(self)
  THEN [status |-> "len_panic", g |-> gg]
  ELSE [status |-> "ok", g |-> ExpandGenerator(self)]

\* init_generator
init_generator(self, gg) ==
  IF Len(gg) # generator_len(self)
  THEN [status |-> "len_panic", g |-> gg]
  ELSE [status |-> "ok", g |-> gg]

\* init_paritycheck_tc and init_paritycheck_tm
init_paritycheck_tc(self, hh) == ExpandTc(self, TcPrototype(self), hh)

init_paritycheck_tm(self, hh) == ExpandTm(self, TmTables, hh)

\* init_paritycheck: the match on *self
ParityDispatch(self, hh) ==
  IF self.variant \in TCCodes THEN init_paritycheck_tc(self, hh)
  ELSE init_paritycheck_tm(self, hh)

\* init_paritycheck: h after the zeroing loop
Zeroed(hh) == Filled(Len(hh), {})

(***************************************************************************)
(* What an expander computes from the code alone - the rows the checks     *)
(* build appends, the matrix expanded from a zeroed buffer, the columns of *)
(* the built checks - is evaluated once per code and looked up by the      *)
(* operations whenever they are applied to that same input.                *)
(***************************************************************************)
\* tests::CODES
CODES ==
  <<"TC128", "TC256", "TC512", "TM1280", "TM1536", "TM2048", "TM5120", "TM6144", "TM8192">>

CodeIndex(c) == CHOOSE i \in 1..Len(CODES) : CODES[i] = c

\* cs as the checks build writes it: the counter on entry to each row, then
\* the final counter
StartsOf(rows) ==
  Cat(LAMBDA t : <<AsU16(rows.starts[t])>>, 1, Len(rows.starts))
    \o <<AsU16(Len(rows.items))>>

\* init_sparse_paritycheck_checks: the match on *self
RowsFor(self) ==
  IF self.variant \in TCCodes THEN TcRows(self, TcPrototype(self))
  ELSE TmRows(self, TmTables)

Entry(self, hh, rows, cs0) ==
  [self |-> self, h |-> hh, rows |-> rows, ci |-> rows.items, cs |-> cs0,
   columns |-> Columns(self, rows.items, cs0)]

EntryRows(self, rows) ==
  Entry(self, ParityDispatch(self, Filled(paritycheck_len(self), {})), rows, StartsOf(rows))

EntryOf(self) == EntryRows(self, RowsFor(self))

Evaluated == Cat(LAMBDA i : <<EntryOf(ModelCode(CODES[i]))>>, 1, Len(CODES))

\* init_paritycheck: the match on *self applied to the zeroed buffer
ParityMemo(self, hh, e) ==
  IF e.self = self THEN e.h ELSE ParityDispatch(self, Zeroed(hh))

\* an init_paritycheck without the zeroing loop
init_paritycheck_unzeroed(self, hh) ==
  IF Len(hh) # paritycheck_len(self)
  THEN [status |-> "len_panic", h |-> hh]
  ELSE [status |-> "ok", h |-> ParityDispatch(self, hh)]

\* init_paritycheck
init_paritycheck(self, hh) ==
  IF Len(hh) # paritycheck_len(self)
  THEN [status |-> "len_panic", h |-> hh]
  ELSE [status |-> "ok", h |-> ParityMemo(self, hh, Evaluated[CodeIndex(self.variant)])]

RowsMemoTc(self, prototype, e) ==
  IF e.self = self /\ prototype = TcPrototype(self) THEN e.rows
  ELSE TcRows(self, prototype)

\* init_sparse_paritycheck_checks_tc on the prototype given
BuildChecksTc(self, prototype, ci0, cs0) ==
  WriteAppended(RowsMemoTc(self, prototype, Evaluated[CodeIndex(self.variant)]), ci0, cs0)

RowsMemoTm(self, tables, e) ==
  IF e.self = self /\ tables = TmTables THEN e.rows ELSE TmRows(self, tables)

\* init_sparse_paritycheck_checks_tm on the overlays given
BuildChecksTm(self, tables, ci0, cs0) ==
  WriteAppended(RowsMemoTm(self, tables, Evaluated[CodeIndex(self.variant)]), ci0, cs0)

ColumnsMemo(self, ci0, cs0, e) ==
  IF e.self = self /\ e.ci = ci0 /\ e.cs = cs0 THEN e.columns
  ELSE Columns(self, ci0, cs0)

\* the first variable's pass over the checks up to the first slice of ci out
\* of range, where it panics: vs[0] is written, and what it appended to vi
FirstPanic(ci0, cs0, vi0, vs0, first) ==
  [status |-> "index_panic",
   idx |-> FirstPanicVi(VariableColumn(ci0, cs0, 0, first - 1), vi0),
   starts |-> <<0>> \o SubSeq(vs0, 2, Len(vs0))]

\* a variables build that leaves out the write of vs[n+p] after the loop
BuildVariablesNoFinal(self, ci0, cs0, vi0, vs0) ==
  [status |-> "ok",
   idx |-> Columns(self, ci0, cs0).items
             \o SubSeq(vi0, Len(Columns(self, ci0, cs0).items) + 1, Len(vi0)),
   starts |-> Cat(LAMBDA t : <<AsU16(Columns(self, ci0, cs0).starts[t])>>,
                  1, self.n + self.punctured_bits)
                \o SubSeq(vs0, self.n + self.punctured_bits + 1, Len(vs0))]

\* init_sparse_paritycheck_variables after its assertions
BuildVariables(self, ci0, cs0, vi0, vs0) ==
  IF BadWindows(ci0, cs0) = {}
  THEN WriteAppended(ColumnsMemo(self, ci0, cs0, Evaluated[CodeIndex(self.variant)]),
                     vi0, vs0)
  ELSE FirstPanic(ci0, cs0, vi0, vs0, FirstOf(BadWindows(ci0, cs0)))

\* init_sparse_paritycheck_checks_tc and init_sparse_paritycheck_checks_tm
init_sparse_paritycheck_checks_tc(self, ci0, cs0) ==
  BuildChecksTc(self, TcPrototype(self), ci0, cs0)

init_sparse_paritycheck_checks_tm(self, ci0, cs0) ==
  BuildChecksTm(self, TmTables, ci0, cs0)

\* the four buffers after a build of ci and cs, and after a build of vi and vs
ChecksResult(b, vi0, vs0) ==
  [status |-> b.status, ci |-> b.idx, cs |-> b.starts, vi |-> vi0, vs |-> vs0]

VariablesResult(b, ci0, cs0) ==
  [status |-> b.status, ci |-> ci0, cs |-> cs0, vi |-> b.idx, vs |-> b.starts]

\* init_sparse_paritycheck_checks
init_sparse_paritycheck_checks(self, ci0, cs0, vi0, vs0) ==
  IF Len(ci0) # sparse_paritycheck_ci_len(self) \/ Len(cs0) # sparse_paritycheck_cs_len(self)
  THEN [status |-> "len_panic", ci |-> ci0, cs |-> cs0, vi |-> vi0, vs |-> vs0]
  ELSE ChecksResult(IF self.variant \in TCCodes
                    THEN init_sparse_paritycheck_checks_tc(self, ci0, cs0)
                    ELSE init_sparse_paritycheck_checks_tm(self, ci0, cs0),
                    vi0, vs0)

\* init_sparse_paritycheck_variables
init_sparse_paritycheck_variables(self, ci0, cs0, vi0, vs0) ==
  IF \/ Len(ci0) # sparse_paritycheck_ci_len(self)
     \/ Len(cs0) # sparse_paritycheck_cs_len(self)
     \/ Len(vi0) # sparse_paritycheck_vi_len(self)
     \/ Len(vs0) # sparse_paritycheck_vs_len(self)
  THEN [status |-> "len_panic", ci |-> ci0, cs |-> cs0, vi |-> vi0, vs |-> vs0]
  ELSE VariablesResult(BuildVariables(self, ci0, cs0, vi0, vs0), ci0, cs0)

\* the two builds in the other order
init_sparse_paritycheck_swapped(self, ci0, cs0, vi0, vs0) ==
  init_sparse_paritycheck_checks(self, ci0, cs0,
    init_sparse_paritycheck_variables(self, ci0, cs0, vi0, vs0).vi,
    init_sparse_paritycheck_variables(self, ci0, cs0, vi0, vs0).vs)

\* init_sparse_paritycheck: the second call, which a panic of the first
\* does not reach
ThenVariables(self, c) ==
  IF c.status # "ok" THEN c
  ELSE init_sparse_paritycheck_variables(self, c.ci, c.cs, c.vi, c.vs)

\* the two builds without the four assertions in front of them
init_sparse_paritycheck_unchecked(self, ci0, cs0, vi0, vs0) ==
  ThenVariables(self, init_sparse_paritycheck_checks(self, ci0, cs0, vi0, vs0))

\* init_sparse_paritycheck
init_sparse_paritycheck(self, ci0, cs0, vi0, vs0) ==
  IF \/ Len(ci0) # sparse_paritycheck_ci_len(self)
     \/ Len(cs0) # sparse_paritycheck_cs_len(self)
     \/ Len(vi0) # sparse_paritycheck_vi_len(self)
     \/ Len(vs0) # sparse_paritycheck_vs_len(self)
  THEN [status |-> "len_panic", ci |-> ci0, cs |-> cs0, vi |-> vi0, vs |-> vs0]
  ELSE ThenVariables(self, init_sparse_paritycheck_checks(self, ci0, cs0, vi0, vs0))

(***************************************************************************)
(* A caller's session: it selects a code, allocates the six buffers (as    *)
(* the tests do with vec![0; len], here also with every bit set and with   *)
(* one buffer one element short or long) and calls the public operations.  *)
(* A panic ends the session.                                               *)
(***************************************************************************)
Buffers == {"g", "h", "ci", "cs", "vi", "vs"}

NoBad == [buf |-> "none", delta |-> 0]

BadChoices == {NoBad} \cup {[buf |-> b, delta |-> d] : b \in Buffers, d \in {-1, 1}}

Fills == {0, 1}

\* a session of the public operations gives the private parts no arguments
\* of its own
NoInput == [kind |-> "none"]

NoOutput == [kind |-> "none"]

ExpectedLen(self, buf) ==
  CASE buf = "g" -> generator_len(self)
    [] buf = "h" -> paritycheck_len(self)
    [] buf = "ci" -> sparse_paritycheck_ci_len(self)
    [] buf = "cs" -> sparse_paritycheck_cs_len(self)
    [] buf = "vi" -> sparse_paritycheck_vi_len(self)
    [] buf = "vs" -> sparse_paritycheck_vs_len(self)

\* the length the caller allocates for buf
PriorLen(c, b, buf) ==
  ExpectedLen(ModelCode(c), buf) + (IF b.buf = buf THEN b.delta ELSE 0)

\* a u32 buffer and a u16 buffer as allocated: all zero (f = 0) or all ones
PriorWords(c, f, b, buf) == Filled(PriorLen(c, b, buf), IF f = 0 THEN {} ELSE 0..31)

PriorHalves(c, f, b, buf) == Filled(PriorLen(c, b, buf), IF f = 0 THEN 0 ELSE 65535)

Init ==
  /\ code \in LDPCCode
  /\ fill \in Fills
  /\ bad \in BadChoices
  /\ g = PriorWords(code, fill, bad, "g")
  /\ h = PriorWords(code, fill, bad, "h")
  /\ ci = PriorHalves(code, fill, bad, "ci")
  /\ cs = PriorHalves(code, fill, bad, "cs")
  /\ vi = PriorHalves(code, fill, bad, "vi")
  /\ vs = PriorHalves(code, fill, bad, "vs")
  /\ calls = <<>>
  /\ status = "ok"
  /\ input = NoInput
  /\ output = NoOutput

CanCall == status = "ok" /\ Len(calls) < MaxCalls

\* the caller's buffers and the status after a call that returned r
SetSparse(r) ==
  ci' = r.ci /\ cs' = r.cs /\ vi' = r.vi /\ vs' = r.vs /\ status' = r.status

SetG(r) == g' = r.g /\ status' = r.status

SetH(r) == h' = r.h /\ status' = r.status

CallInitGenerator ==
  /\ CanCall
  /\ SetG(init_generator(ModelCode(code), g))
  /\ calls' = Append(calls, "init_generator")
  /\ UNCHANGED <<code, fill, bad, h, ci, cs, vi, vs, input, output>>

CallInitParitycheck ==
  /\ CanCall
  /\ SetH(init_paritycheck(ModelCode(code), h))
  /\ calls' = Append(calls, "init_paritycheck")
  /\ UNCHANGED <<code, fill, bad, g, ci, cs, vi, vs, input, output>>

CallInitSparseParitycheck ==
  /\ CanCall
  /\ SetSparse(init_sparse_paritycheck(ModelCode(code), ci, cs, vi, vs))
  /\ calls' = Append(calls, "init_sparse_paritycheck")
  /\ UNCHANGED <<code, fill, bad, g, h, input, output>>

CallInitSparseParitycheckChecks ==
  /\ CanCall
  /\ SetSparse(init_sparse_paritycheck_checks(ModelCode(code), ci, cs, vi, vs))
  /\ calls' = Append(calls, "init_sparse_paritycheck_checks")
  /\ UNCHANGED <<code, fill, bad, g, h, input, output>>

CallInitSparseParitycheckVariables ==
  /\ CanCall
  /\ SetSparse(init_sparse_paritycheck_variables(ModelCode(code), ci, cs, vi, vs))
  /\ calls' = Append(calls, "init_sparse_paritycheck_variables")
  /\ UNCHANGED <<code, fill, bad, g, h, input, output>>

Next ==
  \/ CallInitGenerator
  \/ CallInitParitycheck
  \/ CallInitSparseParitycheck
  \/ CallInitSparseParitycheckChecks
  \/ CallInitSparseParitycheckVariables

Spec == Init /\ [][Next]_vars

(***************************************************************************)
(* A session that calls init_sparse_paritycheck_variables on ci and cs it  *)
(* filled itself: the built checks, the built checks with every row        *)
(* reversed, every entry in the first row, every entry in the last row,    *)
(* the built rows with every entry 0, and the built checks with the last   *)
(* entry naming a variable past the last one.                              *)
(***************************************************************************)
ReversedRows(ci0, cs0) ==
  Cat(LAMBDA r :
    Cat(LAMBDA t : <<At(ci0, (At(cs0, r + 1) - 1) - t)>>,
        0, (At(cs0, r + 1) - At(cs0, r)) - 1),
    0, Len(cs0) - 2)

FirstRowOnly(self) ==
  [ci |-> Cat(LAMBDA t : <<AsU16(t % (self.n + self.punctured_bits))>>,
              0, self.paritycheck_sum - 1),
   cs |-> <<0>> \o Filled(sparse_paritycheck_cs_len(self) - 1, AsU16(self.paritycheck_sum))]

LastRowOnly(self) ==
  [ci |-> Filled(self.paritycheck_sum, AsU16((self.n + self.punctured_bits) - 1)),
   cs |-> Filled(sparse_paritycheck_cs_len(self) - 1, 0) \o <<AsU16(self.paritycheck_sum)>>]

\* ci with its last entry n+p, one past the last variable
LastPastEnd(self, ci0) ==
  SubSeq(ci0, 1, Len(ci0) - 1) \o <<AsU16(self.n + self.punctured_bits)>>

ChecksInputsOf(self, e) ==
  {[ci |-> e.ci, cs |-> e.cs],
   [ci |-> LastPastEnd(self, e.ci), cs |-> e.cs],
   [ci |-> ReversedRows(e.ci, e.cs), cs |-> e.cs],
   FirstRowOnly(self),
   LastRowOnly(self),
   [ci |-> Filled(self.paritycheck_sum, 0), cs |-> e.cs]}

ChecksInputs(c) == ChecksInputsOf(ModelCode(c), Evaluated[CodeIndex(c)])

InitVars ==
  /\ code \in LDPCCode
  /\ fill \in Fills
  /\ bad = NoBad
  /\ g = PriorWords(code, fill, bad, "g")
  /\ h = PriorWords(code, fill, bad, "h")
  /\ \E supplied \in ChecksInputs(code) : ci = supplied.ci /\ cs = supplied.cs
  /\ vi = PriorHalves(code, fill, bad, "vi")
  /\ vs = PriorHalves(code, fill, bad, "vs")
  /\ calls = <<>>
  /\ status = "ok"
  /\ input = NoInput
  /\ output = NoOutput

NextVars == CallInitSparseParitycheckVariables

SpecVars == InitVars /\ [][NextVars]_vars

(***************************************************************************)
(* A session that applies the two private TC expanders to a prototype of   *)
(* its own: the code's table, or an empty table with one cell (any flags,  *)
(* any rotation) or with two cells side by side.  The dense expander is    *)
(* given a zeroed h, as its pre-requisite says.  SpecTcCell runs both at   *)
(* the scaled size, SpecTcDense the dense expander at the real sizes.      *)
(***************************************************************************)
\* [[u8; 8]; 4] with every cell empty
EmptyTcPrototype == Filled(4, Filled(8, 0))

WithCell(prototype, u, v, subm) == [prototype EXCEPT ![u + 1][v + 1] = subm]

\* the rotations a cell is given: every value of the low 6 bits at the scaled
\* size; at the real sizes 0, 63 and the values next to the multiples of 16
TcRotations(self) ==
  IF self.submatrix_size = ModelSubmatrix(self.variant) THEN 0..63
  ELSE {0, 1, 15, 16, 17, 31, 32, 33, 47, 48, 49, 63}

\* a cell: any combination of the two flags, a rotation in the low 6 bits
TcCellContents(self) == {flags + rot : flags \in {0, HI, HP, HS}, rot \in TcRotations(self)}

TcCellPositions == {<<0, 0>>, <<1, 1>>, <<2, 4>>, <<3, 7>>}

TcModelSizes == {ModelCode("TC128")}

TcRealSizes == {RealCode(c) : c \in TCCodes}

TcPrototypes(self) ==
  {WithCell(EmptyTcPrototype, at[1], at[2], subm) :
     at \in TcCellPositions, subm \in TcCellContents(self)}
  \cup {WithCell(WithCell(EmptyTcPrototype, 1, v, subm), 1, v + 1, other) :
          v \in {2, 3}, subm \in {HP + 5, HS + 63, HI}, other \in {HI, HP + 1, HS + 17}}
  \cup {TcPrototype(self)}

TcInput(self, prototype) == [kind |-> "tc", self |-> self, prototype |-> prototype]

InitTcCell ==
  /\ \E self \in TcModelSizes : \E prototype \in TcPrototypes(self) :
       input = TcInput(self, prototype)
  /\ code = input.self.variant
  /\ fill = 0
  /\ bad = NoBad
  /\ g = <<>>
  /\ h = Filled(paritycheck_len(input.self), {})
  /\ ci = Filled(sparse_paritycheck_ci_len(input.self), 0)
  /\ cs = Filled(sparse_paritycheck_cs_len(input.self), 0)
  /\ vi = <<>>
  /\ vs = <<>>
  /\ calls = <<>>
  /\ status = "ok"
  /\ output = NoOutput

NotCalled(op) == status = "ok" /\ \A t \in 1..Len(calls) : calls[t] # op

\* the caller's ci and cs and the status after a checks build that returned r
SetChecks(r) == ci' = r.idx /\ cs' = r.starts /\ status' = r.status

CallInitParitycheckTc ==
  /\ input.kind = "tc"
  /\ NotCalled("init_paritycheck_tc")
  /\ h' = ExpandTc(input.self, input.prototype, h)
  /\ calls' = Append(calls, "init_paritycheck_tc")
  /\ UNCHANGED <<code, fill, bad, g, ci, cs, vi, vs, status, input, output>>

CallInitSparseParitycheckChecksTc ==
  /\ input.kind = "tc"
  /\ NotCalled("init_sparse_paritycheck_checks_tc")
  /\ SetChecks(BuildChecksTc(input.self, input.prototype, ci, cs))
  /\ calls' = Append(calls, "init_sparse_paritycheck_checks_tc")
  /\ UNCHANGED <<code, fill, bad, g, h, vi, vs, input, output>>

NextTcCell == CallInitParitycheckTc \/ CallInitSparseParitycheckChecksTc

SpecTcCell == InitTcCell /\ [][NextTcCell]_vars

InitTcDense ==
  /\ \E self \in TcRealSizes : \E prototype \in TcPrototypes(self) :
       input = TcInput(self, prototype)
  /\ code = input.self.variant
  /\ fill = 0
  /\ bad = NoBad
  /\ g = <<>>
  /\ h = Filled(paritycheck_len(input.self), {})
  /\ ci = <<>>
  /\ cs = <<>>
  /\ vi = <<>>
  /\ vs = <<>>
  /\ calls = <<>>
  /\ status = "ok"
  /\ output = NoOutput

NextTcDense == CallInitParitycheckTc

SpecTcDense == InitTcDense /\ [][NextTcDense]_vars

(***************************************************************************)
(* A session that applies the two private TM expanders, at the scaled      *)
(* size, to overlays of its own: the three tables, or empty overlays with  *)
(* one block filled in its three planes (each plane empty, HI, or HP with  *)
(* a selector).                                                            *)
(***************************************************************************)
\* [[[u8; 5]; 3]; 3] with every cell empty
EmptyTmPrototype == Filled(3, Filled(3, Filled(5, 0)))

EmptyTmTables ==
  [r12 |-> EmptyTmPrototype, r23 |-> EmptyTmPrototype, r45 |-> EmptyTmPrototype]

\* the prototype with the cell of row v, column w set to planes[1..3] in the
\* three planes
WithPlanes(prototype, v, w, planes) ==
  [pl \in 1..3 |-> [prototype[pl] EXCEPT ![v + 1][w + 1] = planes[pl]]]

\* what a plane holds in a cell
TmPlaneContents == {0, HI, HP + 1, HP + 26}

\* the blocks filled: the code, the overlay and the cell within the overlay
TmBlocks ==
  {[c |-> "TM2048", overlay |-> "r12", v |-> 0, w |-> 0],
   [c |-> "TM2048", overlay |-> "r12", v |-> 2, w |-> 4],
   [c |-> "TM1536", overlay |-> "r23", v |-> 1, w |-> 1]}

TmInput(self, tables) == [kind |-> "tm", self |-> self, tables |-> tables]

TmInputs ==
  {TmInput(ModelCode(b.c),
           [EmptyTmTables EXCEPT
              ![b.overlay] = WithPlanes(EmptyTmPrototype, b.v, b.w, <<c1, c2, c3>>)]) :
     b \in TmBlocks, c1 \in TmPlaneContents, c2 \in TmPlaneContents, c3 \in TmPlaneContents}
  \cup {TmInput(ModelCode(c), TmTables) : c \in {"TM2048", "TM1536", "TM1280"}}

InitTmCell ==
  /\ input \in TmInputs
  /\ code = input.self.variant
  /\ fill = 0
  /\ bad = NoBad
  /\ g = <<>>
  /\ h = Filled(paritycheck_len(input.self), {})
  /\ ci = Filled(sparse_paritycheck_ci_len(input.self), 0)
  /\ cs = Filled(sparse_paritycheck_cs_len(input.self), 0)
  /\ vi = <<>>
  /\ vs = <<>>
  /\ calls = <<>>
  /\ status = "ok"
  /\ output = NoOutput

CallInitParitycheckTm ==
  /\ input.kind = "tm"
  /\ NotCalled("init_paritycheck_tm")
  /\ h' = ExpandTm(input.self, input.tables, h)
  /\ calls' = Append(calls, "init_paritycheck_tm")
  /\ UNCHANGED <<code, fill, bad, g, ci, cs, vi, vs, status, input, output>>

CallInitSparseParitycheckChecksTm ==
  /\ input.kind = "tm"
  /\ NotCalled("init_sparse_paritycheck_checks_tm")
  /\ SetChecks(BuildChecksTm(input.self, input.tables, ci, cs))
  /\ calls' = Append(calls, "init_sparse_paritycheck_checks_tm")
  /\ UNCHANGED <<code, fill, bad, g, h, vi, vs, input, output>>

NextTmCell == CallInitParitycheckTm \/ CallInitSparseParitycheckChecksTm

SpecTmCell == InitTmCell /\ [][NextTmCell]_vars

(***************************************************************************)
(* The arithmetic of the TM expanders on its own: one bit written by        *)
(* init_paritycheck_tm_sub for given loop indices, and pi(i) of both        *)
(* expanders over a whole sub-matrix for given theta and phi entries.       *)
(***************************************************************************)
\* the sizes at which the TM arithmetic is run
TmArithCodes == {RealCode(c) : c \in TMCodes} \cup {ModelCode(c) : c \in TMCodes}

\* rows and columns within a sub-matrix: the ends and the word boundaries
TmEdges(m) == {x \in {0, 1, 31, 32, m - 1} : x < m}

\* one pass of the loop over i, with j as the cell gives it, in one call of
\* init_paritycheck_tm_sub
TmWriteInput(self, call, v, w, i, j) ==
  [kind |-> "write", self |-> self, col0 |-> call.col0, hcols |-> call.hcols,
   v |-> v, w |-> w, i |-> i, j |-> j]

TmWriteInputs ==
  UNION {UNION {{TmWriteInput(self, TmSubCalls(self, TmTables)[t], v, w, i, j) :
                   v \in 0..2, w \in 0..(TmSubCalls(self, TmTables)[t].pwidth - 1),
                   i \in TmEdges(self.submatrix_size),
                   j \in TmEdges(self.submatrix_size)} :
                t \in 1..Len(TmSubCalls(self, TmTables))} :
           self \in TmArithCodes}

\* entries of theta_k (u8) and of phi_j_k (u16) for sub-matrix size m
ThetaValues == {0, 1, 2, 3, 255}

PhiValues(m) == {0, (m \div 4) - 1, 65535}

PiInput(m, theta, phi) == [kind |-> "pi", m |-> m, theta |-> theta, phi |-> phi]

\* every theta with every mix of phi entries at the smaller sizes, the
\* extremes at the larger ones
PiInputs ==
  UNION {{PiInput(m, theta, <<a, b, c, a>>) :
            theta \in ThetaValues,
            a \in PhiValues(m), b \in PhiValues(m), c \in PhiValues(m)} :
         m \in {2 ^ TMLogM, 128, 256}}
  \cup UNION {{PiInput(m, theta, phi) :
                 theta \in {0, 255},
                 phi \in {<<0, 0, 0, 0>>, <<65535, (m \div 4) - 1, 1, m \div 4>>}} :
              m \in {512, 1024, 2048}}

InitTmArith ==
  /\ input \in TmWriteInputs \cup PiInputs
  /\ code = IF input.kind = "write" THEN input.self.variant ELSE "TM2048"
  /\ fill = 0
  /\ bad = NoBad
  /\ g = <<>>
  /\ h = <<>>
  /\ ci = <<>>
  /\ cs = <<>>
  /\ vi = <<>>
  /\ vs = <<>>
  /\ calls = <<>>
  /\ status = "ok"
  /\ output = NoOutput

\* init_paritycheck_tm_sub: idx and shift of one pass of the loop over i
CallTmWrite ==
  /\ input.kind = "write"
  /\ NotCalled("idx")
  /\ output' = [kind |-> "write",
                idx |-> TmIdx(input.self, input.col0, input.hcols,
                              input.v, input.w, input.i, input.j),
                shift |-> TmShift(input.j)]
  /\ calls' = Append(calls, "idx")
  /\ UNCHANGED <<code, fill, bad, g, h, ci, cs, vi, vs, status, input>>

\* pi(0) .. pi(m-1) of an expander
PiTable(Pi(_, _, _, _), m, theta, phi) == [t \in 1..m |-> Pi(m, theta, phi, t - 1)]

\* what has been computed so far
PiOutput(field) == IF output.kind = "pi" THEN output[field] ELSE <<>>

\* init_paritycheck_tm_sub: pi(i) for every row i of a sub-matrix
CallPiDense ==
  /\ input.kind = "pi"
  /\ NotCalled("pi_dense")
  /\ output' = [kind |-> "pi",
                dense |-> PiTable(PiDenseOf, input.m, input.theta, input.phi),
                sparse |-> PiOutput("sparse")]
  /\ calls' = Append(calls, "pi_dense")
  /\ UNCHANGED <<code, fill, bad, g, h, ci, cs, vi, vs, status, input>>

\* init_sparse_paritycheck_checks_tm: pi_i for every block_check
CallPiSparse ==
  /\ input.kind = "pi"
  /\ NotCalled("pi_sparse")
  /\ output' = [kind |-> "pi",
                dense |-> PiOutput("dense"),
                sparse |-> PiTable(PiSparseOf, input.m, input.theta, input.phi)]
  /\ calls' = Append(calls, "pi_sparse")
  /\ UNCHANGED <<code, fill, bad, g, h, ci, cs, vi, vs, status, input>>

NextTmArith == CallTmWrite \/ CallPiDense \/ CallPiSparse

SpecTmArith == InitTmArith /\ [][NextTmArith]_vars

(***************************************************************************)
(* The index arithmetic of the expanders on its own, at the real and at    *)
(* the scaled sizes of the nine codes: the word indices and shifts the     *)
(* loops of one cell of a dense expander compute, and the prototype cells  *)
(* the loops of a checks build read.                                       *)
(***************************************************************************)
IndexCodes == {RealCode(c) : c \in LDPCCode} \cup {ModelCode(c) : c \in LDPCCode}

\* init_paritycheck_tc: the loops over i and j of cell (u, v)
TcLoopsInput(self, u, v) == [kind |-> "tc_loops", self |-> self, u |-> u, v |-> v]

\* init_paritycheck_tm_sub: the loop over i of cell (v, w) of plane pm, in
\* call t of init_paritycheck_tm
TmLoopsInput(self, t, pm, v, w) ==
  [kind |-> "tm_loops", self |-> self, call |-> t, pm |-> pm, v |-> v, w |-> w]

\* init_sparse_paritycheck_checks_tc: the loops over check and variable
TcChecksInput(self) == [kind |-> "tc_checks", self |-> self]

\* init_sparse_paritycheck_checks_tm: the loop over check for one
\* variable_block
TmChecksInput(self, variable_block) ==
  [kind |-> "tm_checks", self |-> self, variable_block |-> variable_block]

IndexInputsTc(self) ==
  {TcLoopsInput(self, u, v) : u \in 0..3, v \in 0..7} \cup {TcChecksInput(self)}

IndexInputsTm(self) ==
  UNION {{TmLoopsInput(self, t, pm, v, w) :
            pm \in 0..2, v \in 0..2,
            w \in 0..(TmSubCalls(self, TmTables)[t].pwidth - 1)} :
         t \in 1..Len(TmSubCalls(self, TmTables))}
  \cup {TmChecksInput(self, variable_block) :
          variable_block \in 0..(((self.n + self.punctured_bits) \div self.submatrix_size) - 1)}

IndexInputs ==
  UNION {IF self.variant \in TCCodes THEN IndexInputsTc(self) ELSE IndexInputsTm(self) :
         self \in IndexCodes}

InitIndex ==
  /\ input \in IndexInputs
  /\ code = input.self.variant
  /\ fill = 0
  /\ bad = NoBad
  /\ g = <<>>
  /\ h = <<>>
  /\ ci = <<>>
  /\ cs = <<>>
  /\ vi = <<>>
  /\ vs = <<>>
  /\ calls = <<>>
  /\ status = "ok"
  /\ output = NoOutput

\* the word indices and the shifts computed
Computed(idx, shift) == [kind |-> "words", idx |-> idx, shift |-> shift]

\* the prototype cells read: their row and column indices, and the number
\* of rows and of columns of the array indexed
Cells(rows, cols, prototype) ==
  [kind |-> "cells", rows |-> rows, cols |-> cols,
   nrows |-> Len(prototype), ncols |-> Len(At(prototype, 0))]

\* init_paritycheck_tc: idx and shift for every i and j of a flagged cell
TcLoops(self, subm, u, v) ==
  IF HasFlag(subm, HP) \/ HasFlag(subm, HI)
  THEN Computed({TcIdx(self, u, v, i, j) :
                   i \in 0..(self.submatrix_size - 1), j \in 0..(self.submatrix_size - 1)},
                {TcShift(self, v, j) : j \in 0..(self.submatrix_size - 1)})
  ELSE Computed({}, {})

\* init_paritycheck_tm_sub: idx and shift of the writes of a cell
TmLoops(writes) ==
  Computed({writes[t].idx : t \in 1..Len(writes)},
           {writes[t].shift : t \in 1..Len(writes)})

\* init_sparse_paritycheck_checks_tc: prototype[check_block][variable_block]
TcChecksCells(self, prototype) ==
  Cells({ShiftRight(check, trailing_zeros(self.submatrix_size)) :
           check \in 0..(self.n - self.k - 1)},
        {ShiftRight(variable, trailing_zeros(self.submatrix_size)) :
           variable \in 0..(self.n - 1)},
        prototype)

\* init_sparse_paritycheck_checks_tm:
\* proto[check >> divm][variable_block - variable_block_offset]
TmChecksCells(self, ov, variable_block) ==
  Cells({ShiftRight(check, trailing_zeros(self.submatrix_size)) :
           check \in 0..(self.n - self.k + self.punctured_bits - 1)},
        {variable_block - ov.offset},
        At(ov.prototype, 0))

CallTcLoops ==
  /\ input.kind = "tc_loops"
  /\ NotCalled("init_paritycheck_tc")
  /\ output' = TcLoops(input.self, At(At(TcPrototype(input.self), input.u), input.v),
                       input.u, input.v)
  /\ calls' = Append(calls, "init_paritycheck_tc")
  /\ UNCHANGED <<code, fill, bad, g, h, ci, cs, vi, vs, status, input>>

CallTmLoops ==
  /\ input.kind = "tm_loops"
  /\ NotCalled("init_paritycheck_tm_sub")
  /\ \E call \in {TmSubCalls(input.self, TmTables)[input.call]} :
       output' = TmLoops(TmCellWrites(input.self, call.col0, call.hcols,
                                      At(At(At(call.prototype, input.pm), input.v), input.w),
                                      input.v, input.w))
  /\ calls' = Append(calls, "init_paritycheck_tm_sub")
  /\ UNCHANGED <<code, fill, bad, g, h, ci, cs, vi, vs, status, input>>

CallTcChecksCells ==
  /\ input.kind = "tc_checks"
  /\ NotCalled("init_sparse_paritycheck_checks_tc")
  /\ output' = TcChecksCells(input.self, TcPrototype(input.self))
  /\ calls' = Append(calls, "init_sparse_paritycheck_checks_tc")
  /\ UNCHANGED <<code, fill, bad, g, h, ci, cs, vi, vs, status, input>>

CallTmChecksCells ==
  /\ input.kind = "tm_checks"
  /\ NotCalled("init_sparse_paritycheck_checks_tm")
  /\ output' = TmChecksCells(input.self,
                             TmOverlay(TmTables,
                                       (input.self.n + input.self.punctured_bits)
                                         \div input.self.submatrix_size,
                                       input.variable_block),
                             input.variable_block)
  /\ calls' = Append(calls, "init_sparse_paritycheck_checks_tm")
  /\ UNCHANGED <<code, fill, bad, g, h, ci, cs, vi, vs, status, input>>

NextIndex == CallTcLoops \/ CallTmLoops \/ CallTcChecksCells \/ CallTmChecksCells

SpecIndex == InitIndex /\ [][NextIndex]_vars

(***************************************************************************)
(* The properties.                                                         *)
(***************************************************************************)
\* op was called and returned: a panic ends the session, so every call but
\* the last returned, and the last returned iff the status is ok
Returned(op) ==
  \E i \in 1..Len(calls) : calls[i] = op /\ (i < Len(calls) \/ status = "ok")

\* the entries of idx[starts[r]..starts[r+1]]
SliceOf(idx, starts, r) == {At(idx, t) : t \in At(starts, r)..(At(starts, r + 1) - 1)}

\* H[r, v] = 1 iff v is listed for check r, and iff r is listed for variable v
SameGraph(self, hh, ci0, cs0, vi0, vs0) ==
  /\ \A r \in 0..(self.n - self.k + self.punctured_bits - 1) :
       \A row \in {SliceOf(ci0, cs0, r)} :
         \A v \in 0..(self.n + self.punctured_bits - 1) :
           MatrixBit(hh, self.n + self.punctured_bits, r, v) <=> v \in row
  /\ \A v \in 0..(self.n + self.punctured_bits - 1) :
       \A col \in {SliceOf(vi0, vs0, v)} :
         \A r \in 0..(self.n - self.k + self.punctured_bits - 1) :
           MatrixBit(hh, self.n + self.punctured_bits, r, v) <=> r \in col

\* C1: once init_paritycheck and init_sparse_paritycheck have both returned,
\* h, (ci, cs) and (vi, vs) describe the same graph: for every check r and
\* variable v, H[r,v] = 1 iff v occurs in ci[cs[r]..cs[r+1]] iff r occurs in
\* vi[vs[v]..vs[v+1]].
C1_SameGraph ==
  (Returned("init_paritycheck") /\ Returned("init_sparse_paritycheck"))
    => SameGraph(ModelCode(code), h, ci, cs, vi, vs)

C1_Witness ==
  /\ Returned("init_paritycheck") /\ Returned("init_sparse_paritycheck")
  /\ code = "TM1280" /\ fill = 1
  /\ \E t \in 1..Len(h) : h[t] # {}

\* C2: after init_generator has returned, g holds the expansion of the
\* compact generator: each block's first row bit for bit, each following row
\* the previous one rotated right by one within each circulant sub-block.
C2_GeneratorExpanded ==
  Returned("init_generator") => g = ExpandGenerator(ModelCode(code))

\* the number of 1 bits of a packed matrix
TotalOnes(hh) == Fold(LAMBDA acc, t : acc + count_ones(hh[t]), 0, 1, Len(hh))

\* C3: after init_paritycheck has returned, the number of 1 bits in h is the
\* code's paritycheck_sum.
C3_WeightLaw ==
  Returned("init_paritycheck") => TotalOnes(h) = ModelCode(code).paritycheck_sum

C3_Witness ==
  /\ Returned("init_paritycheck") /\ fill = 1 /\ code = "TM2048"
  /\ TotalOnes(h) > 0

\* the caller's buffer of each name, and the buffers each operation is given
BufferOf(buf) ==
  CASE buf = "g" -> g [] buf = "h" -> h [] buf = "ci" -> ci
    [] buf = "cs" -> cs [] buf = "vi" -> vi [] buf = "vs" -> vs

Supplied(op) ==
  CASE op = "init_generator" -> {"g"}
    [] op = "init_paritycheck" -> {"h"}
    [] op = "init_sparse_paritycheck" -> {"ci", "cs", "vi", "vs"}
    [] op = "init_sparse_paritycheck_checks" -> {"ci", "cs"}
    [] op = "init_sparse_paritycheck_variables" -> {"ci", "cs", "vi", "vs"}

Operations ==
  {"init_generator", "init_paritycheck", "init_sparse_paritycheck",
   "init_sparse_paritycheck_checks", "init_sparse_paritycheck_variables"}

SuppliedWrong(op) ==
  \E buf \in Supplied(op) : Len(BufferOf(buf)) # ExpectedLen(ModelCode(code), buf)

\* C4: a call of any of the five operations with a supplied buffer of a length
\* other than the expected one aborts on the length assertion, and leaves
\* every element of every buffer as it was before the call.
C4_LengthAbort ==
  [][\A op \in Operations :
       (calls' = Append(calls, op) /\ SuppliedWrong(op))
         => (status' = "len_panic"
             /\ <<g, h, ci, cs, vi, vs>>' = <<g, h, ci, cs, vi, vs>>)]_vars

C4_Witness ==
  /\ status = "len_panic"
  /\ calls = <<"init_sparse_paritycheck_checks", "init_sparse_paritycheck">>
  /\ bad = [buf |-> "vs", delta |-> 1]
  /\ fill = 1

\* C5: for every code the length functions give the values of the formulas
\* k(n-k)/32, (n+p)(n-k+p)/32, paritycheck_sum, n-k+p+1 and n+p+1, and the
\* values of the six length fields of the code's CodeParams constant.
C5_SizeLaw ==
  /\ generator_len(RealCode(code)) = (params(code).k * (params(code).n - params(code).k)) \div 32
  /\ generator_len(RealCode(code)) = params(code).generator_len
  /\ paritycheck_len(RealCode(code))
       = ((params(code).n + params(code).punctured_bits)
          * ((params(code).n - params(code).k) + params(code).punctured_bits)) \div 32
  /\ paritycheck_len(RealCode(code)) = params(code).paritycheck_len
  /\ sparse_paritycheck_ci_len(RealCode(code)) = params(code).paritycheck_sum
  /\ sparse_paritycheck_vi_len(RealCode(code)) = params(code).paritycheck_sum
  /\ sparse_paritycheck_ci_len(RealCode(code)) = params(code).sparse_paritycheck_ci_len
  /\ sparse_paritycheck_vi_len(RealCode(code)) = params(code).sparse_paritycheck_vi_len
  /\ sparse_paritycheck_cs_len(RealCode(code))
       = ((params(code).n - params(code).k) + params(code).punctured_bits) + 1
  /\ sparse_paritycheck_cs_len(RealCode(code)) = params(code).sparse_paritycheck_cs_len
  /\ sparse_paritycheck_vs_len(RealCode(code)) = (params(code).n + params(code).punctured_bits) + 1
  /\ sparse_paritycheck_vs_len(RealCode(code)) = params(code).sparse_paritycheck_vs_len

C5_Witness ==
  /\ code = "TM8192" /\ Returned("init_paritycheck")
  /\ paritycheck_len(RealCode(code)) = 1966080
  /\ params(code).punctured_bits > 0

\* starts[0] = 0, starts is non-decreasing, and its last entry is total
Offsets(starts, total) ==
  /\ At(starts, 0) = 0
  /\ \A r \in 0..(Len(starts) - 2) : At(starts, r) <= At(starts, r + 1)
  /\ At(starts, Len(starts) - 1) = total

\* C6: after init_sparse_paritycheck has returned, cs[0] = 0 and vs[0] = 0, cs
\* and vs are non-decreasing over their n-k+p+1 and n+p+1 entries, and the
\* last entry of each is paritycheck_sum.
C6_LengthLaw ==
  Returned("init_sparse_paritycheck")
    => /\ Len(cs) = (ModelCode(code).n - ModelCode(code).k) + ModelCode(code).punctured_bits + 1
       /\ Len(vs) = ModelCode(code).n + ModelCode(code).punctured_bits + 1
       /\ Offsets(cs, ModelCode(code).paritycheck_sum)
       /\ Offsets(vs, ModelCode(code).paritycheck_sum)

C6_Witness ==
  /\ Returned("init_sparse_paritycheck") /\ code = "TM1536" /\ fill = 1
  /\ At(cs, Len(cs) - 1) > 0 /\ At(vs, 1) > 0

\* the entries of each slice idx[starts[r]..starts[r+1]] are strictly ascending
StrictlyAscending(idx, starts) ==
  \A r \in 0..(Len(starts) - 2) :
    \A t \in At(starts, r)..(At(starts, r + 1) - 2) : At(idx, t) < At(idx, t + 1)

\* C7: after init_sparse_paritycheck has returned, the variable indices of
\* each row slice of ci and the check indices of each column slice of vi are
\* strictly ascending.
C7_OrderingLaw ==
  Returned("init_sparse_paritycheck")
    => StrictlyAscending(ci, cs) /\ StrictlyAscending(vi, vs)

C7_Witness ==
  /\ Returned("init_sparse_paritycheck") /\ code = "TC256" /\ fill = 1
  /\ \E r \in 0..(Len(cs) - 2) : At(cs, r + 1) - At(cs, r) >= 2
  /\ \E v \in 0..(Len(vs) - 2) : At(vs, v + 1) - At(vs, v) >= 2

\* C8: what init_generator, init_paritycheck and init_sparse_paritycheck leave
\* in their buffers is what the same call leaves when started from correctly
\* sized buffers of the other prior contents.
C8_Deterministic ==
  /\ (calls = <<"init_generator">> /\ status = "ok")
       => g = init_generator(ModelCode(code), PriorWords(code, 1 - fill, NoBad, "g")).g
  /\ (calls = <<"init_paritycheck">> /\ status = "ok")
       => h = init_paritycheck(ModelCode(code), PriorWords(code, 1 - fill, NoBad, "h")).h
  /\ (calls = <<"init_sparse_paritycheck">> /\ status = "ok")
       => [status |-> status, ci |-> ci, cs |-> cs, vi |-> vi, vs |-> vs]
            = init_sparse_paritycheck(ModelCode(code),
                PriorHalves(code, 1 - fill, NoBad, "ci"), PriorHalves(code, 1 - fill, NoBad, "cs"),
                PriorHalves(code, 1 - fill, NoBad, "vi"), PriorHalves(code, 1 - fill, NoBad, "vs"))

\* the four sparse buffers as the caller allocated them
PriorSparse(buf) == PriorHalves(code, fill, bad, buf)

FourBuffers(r) == <<r.ci, r.cs, r.vi, r.vs>>

ExactSparse == bad.buf \notin {"ci", "cs", "vi", "vs"}

\* the three parts of the statement: the two partial builds in sequence against
\* the one call, and what each partial build leaves alone
Composition ==
  /\ calls = <<"init_sparse_paritycheck_checks", "init_sparse_paritycheck_variables">>
       => <<ci, cs, vi, vs>>
            = FourBuffers(init_sparse_paritycheck(ModelCode(code), PriorSparse("ci"),
                            PriorSparse("cs"), PriorSparse("vi"), PriorSparse("vs")))
  /\ calls = <<"init_sparse_paritycheck_checks">>
       => vi = PriorSparse("vi") /\ vs = PriorSparse("vs")
  /\ calls = <<"init_sparse_paritycheck_variables">>
       => ci = PriorSparse("ci") /\ cs = PriorSparse("cs")

\* C10 as stated: for every code and starting buffers, the two partial builds
\* in sequence leave the four buffers as init_sparse_paritycheck leaves them;
\* the checks build writes nothing to vi/vs, the variables build nothing to
\* ci/cs.
C10_Composition_AsStated == Composition

\* C10 amended: the same, for starting buffers of the exact expected lengths.
C10_Composition == ExactSparse => Composition

C10_Witness ==
  /\ calls = <<"init_sparse_paritycheck_checks", "init_sparse_paritycheck_variables">>
  /\ status = "ok" /\ ExactSparse /\ fill = 1 /\ code = "TM2048"
  /\ vi # PriorSparse("vi")

\* ci and cs as the statement takes them: cs[0] = 0, cs non-decreasing,
\* cs[last] = paritycheck_sum, every ci entry below n+p
ValidChecks(self, ci0, cs0) ==
  /\ Len(ci0) = sparse_paritycheck_ci_len(self)
  /\ Len(cs0) = sparse_paritycheck_cs_len(self)
  /\ Offsets(cs0, self.paritycheck_sum)
  /\ \A t \in 0..(Len(ci0) - 1) : At(ci0, t) < self.n + self.punctured_bits

\* how often x occurs in idx[starts[r]..starts[r+1]]
Occurrences(idx, starts, r, x) ==
  Cardinality({t \in At(starts, r)..(At(starts, r + 1) - 1) : At(idx, t) = x})

Transposed(self, ci0, cs0, vi0, vs0) ==
  \A v \in 0..(self.n + self.punctured_bits - 1) :
    /\ \A c \in 0..(self.n - self.k + self.punctured_bits - 1) :
         Occurrences(vi0, vs0, v, c) = Occurrences(ci0, cs0, c, v)
    /\ \A t \in At(vs0, v)..(At(vs0, v + 1) - 2) : At(vi0, t) <= At(vi0, t + 1)

\* C9: init_sparse_paritycheck_variables, given ci and cs of the exact lengths
\* with cs[0] = 0, cs non-decreasing, cs[last] = paritycheck_sum and every ci
\* entry below n+p, returns with as many occurrences of each check c in
\* vi[vs[v]..vs[v+1]] as there are of v in ci[cs[c]..cs[c+1]], the checks of
\* each variable in ascending order.
C9_Transposition ==
  (calls # <<>> /\ calls[Len(calls)] = "init_sparse_paritycheck_variables"
     /\ bad.buf \notin {"vi", "vs"} /\ ValidChecks(ModelCode(code), ci, cs))
    => status = "ok" /\ Transposed(ModelCode(code), ci, cs, vi, vs)

C9_Witness ==
  /\ calls = <<"init_sparse_paritycheck_variables">> /\ status = "ok"
  /\ ValidChecks(ModelCode(code), ci, cs)
  /\ code = "TC512" /\ fill = 1
  /\ Occurrences(ci, cs, 0, 3) >= 2
  /\ Occurrences(vi, vs, 3, 0) >= 2

\* the rate of a TM code, k/n, names its number of sub-matrix columns
RateColumns(self) ==
  CASE 2 * self.k = self.n     -> 5
    [] 3 * self.k = 2 * self.n -> 7
    [] 5 * self.k = 4 * self.n -> 11
    [] OTHER                   -> 0

MultipleOf32(x) == x % 32 = 0

DataModel(c, self) ==
  /\ is_power_of_two(self.submatrix_size)
  /\ MultipleOf32(self.n) /\ MultipleOf32(self.k) /\ MultipleOf32(self.punctured_bits)
  /\ MultipleOf32((self.n - self.k) + self.punctured_bits)
  /\ MultipleOf32(self.n + self.punctured_bits)
  /\ c \in TCCodes =>
       /\ self.n \in {128, 256, 512} /\ 2 * self.k = self.n /\ self.punctured_bits = 0
       /\ self.n = 8 * self.submatrix_size
       /\ self.n - self.k = 4 * self.submatrix_size
  /\ c \in TMCodes =>
       /\ self.k \in {1024, 4096} /\ self.punctured_bits > 0
       /\ self.n + self.punctured_bits = RateColumns(self) * self.submatrix_size
       /\ (self.n - self.k) + self.punctured_bits = 3 * self.submatrix_size

\* C11: the parameters of every code satisfy the data-model invariants: M is
\* a power of two; n, k, p, n-k+p and n+p are multiples of 32; a TC code has n
\* in {128, 256, 512}, k = n/2, p = 0, n = 8M and n-k = 4M; a TM code has k in
\* {1024, 4096}, p > 0, (n+p)/M = 5, 7 or 11 for the rates 1/2, 2/3 and 4/5,
\* and n-k+p = 3M.
C11_ParameterTable == DataModel(code, RealCode(code))

C11_Witness ==
  /\ code = "TM6144" /\ Returned("init_sparse_paritycheck_checks")
  /\ RateColumns(RealCode(code)) = 7
  /\ RealCode(code).submatrix_size = 1024

\* every entry of idx is below bound, every entry of starts is at most total,
\* and the last entry of starts, the counter after the last append, is total
Unwrapped(idx, starts, bound, total) ==
  /\ \A t \in 1..Len(idx) : idx[t] < bound
  /\ \A t \in 1..Len(starts) : starts[t] <= total
  /\ starts[Len(starts)] = total

\* C12: what the builds store in the 16-bit arrays fits: n+p <= 10240 and
\* paritycheck_sum <= 30720 < 65536 for every code, and after the builds
\* every variable index in ci is below n+p, every check index in vi below
\* n-k+p, every offset in cs and vs at most paritycheck_sum, and the final
\* offsets are the counters ci_idx and vi_idx unwrapped, paritycheck_sum.
C12_SixteenBit ==
  /\ RealCode(code).n + RealCode(code).punctured_bits <= 10240
  /\ RealCode(code).paritycheck_sum <= 30720
  /\ AsU16(RealCode(code).paritycheck_sum) = RealCode(code).paritycheck_sum
  /\ AsU16(RealCode(code).n + RealCode(code).punctured_bits)
       = RealCode(code).n + RealCode(code).punctured_bits
  /\ (Returned("init_sparse_paritycheck_checks") \/ Returned("init_sparse_paritycheck"))
       => Unwrapped(ci, cs, ModelCode(code).n + ModelCode(code).punctured_bits,
                    ModelCode(code).paritycheck_sum)
  /\ Returned("init_sparse_paritycheck")
       => Unwrapped(vi, vs,
                    (ModelCode(code).n - ModelCode(code).k) + ModelCode(code).punctured_bits,
                    ModelCode(code).paritycheck_sum)

C12_Witness ==
  /\ Returned("init_sparse_paritycheck") /\ code = "TM8192" /\ fill = 1
  /\ RealCode(code).paritycheck_sum = 30720
  /\ vs[Len(vs)] = ModelCode(code).paritycheck_sum
  /\ \E t \in 1..Len(ci) : ci[t] = (ModelCode(code).n + ModelCode(code).punctured_bits) - 1

Covering(self, subcalls, variable_block) ==
  {t \in 1..Len(subcalls) :
     /\ subcalls[t].col0 <= variable_block * self.submatrix_size
     /\ variable_block * self.submatrix_size
          < subcalls[t].col0 + (subcalls[t].pwidth * self.submatrix_size)}

\* every sub-matrix column is covered by one call of the dense expander, and
\* the overlay and the column within it are those the sparse builder selects
SameLayering(self, subcalls, tables, q) ==
  \A variable_block \in 0..(q - 1) :
    /\ Cardinality(Covering(self, subcalls, variable_block)) = 1
    /\ \A t \in Covering(self, subcalls, variable_block) :
         /\ subcalls[t].prototype = TmOverlay(tables, q, variable_block).prototype
         /\ (variable_block * self.submatrix_size) - subcalls[t].col0
              = (variable_block - TmOverlay(tables, q, variable_block).offset)
                  * self.submatrix_size
         /\ subcalls[t].hcols = self.n + self.punctured_bits
         /\ variable_block - TmOverlay(tables, q, variable_block).offset < subcalls[t].pwidth

\* the layers of each rate: the overlay and the sub-matrix columns it covers
RateLayers(tables, q) ==
  CASE q = 5  -> {[prototype |-> tables.r12, first |-> 0, last |-> 4]}
    [] q = 7  -> {[prototype |-> tables.r23, first |-> 0, last |-> 1],
                  [prototype |-> tables.r12, first |-> 2, last |-> 6]}
    [] q = 11 -> {[prototype |-> tables.r45, first |-> 0, last |-> 3],
                  [prototype |-> tables.r23, first |-> 4, last |-> 5],
                  [prototype |-> tables.r12, first |-> 6, last |-> 10]}

RateRule(self, subcalls, tables, q) ==
  /\ q = (CASE self.variant \in {"TM2048", "TM8192"} -> 5
            [] self.variant \in {"TM1536", "TM6144"} -> 7
            [] self.variant \in {"TM1280", "TM5120"} -> 11)
  /\ Len(subcalls) = Cardinality(RateLayers(tables, q))
  /\ \A layer \in RateLayers(tables, q) :
       /\ \E t \in 1..Len(subcalls) :
            subcalls[t] = TmSubCall(layer.first * self.submatrix_size,
                                    (layer.last - layer.first) + 1,
                                    q * self.submatrix_size, layer.prototype)
       /\ \A variable_block \in layer.first..layer.last :
            TmOverlay(tables, q, variable_block)
              = [prototype |-> layer.prototype, offset |-> layer.first]

Layering(self) ==
  /\ SameLayering(self, TmSubCalls(self, TmTables), TmTables,
                  (self.n + self.punctured_bits) \div self.submatrix_size)
  /\ RateRule(self, TmSubCalls(self, TmTables), TmTables,
              (self.n + self.punctured_bits) \div self.submatrix_size)

\* C17: for every TM code the overlays are layered by the rate rules (q = 5:
\* H_1/2 on columns 0..4; q = 7: H_2/3 on 0..1, H_1/2 on 2..6; q = 11: H_4/5
\* on 0..3, H_2/3 on 4..5, H_1/2 on 6..10), the overlay and the column within
\* it that init_paritycheck_tm chooses by the code are those that
\* init_sparse_paritycheck_checks_tm chooses by (n+p)/M, and every sub-matrix
\* column is covered exactly once.
C17_OverlayLayering ==
  code \in TMCodes => Layering(RealCode(code)) /\ Layering(ModelCode(code))

C17_Witness ==
  /\ code = "TM5120" /\ Returned("init_paritycheck")
  /\ Len(TmSubCalls(RealCode(code), TmTables)) = 3
  /\ Covering(RealCode(code), TmSubCalls(RealCode(code), TmTables), 5) = {2}

\* both private TC expanders have been applied to the prototype of the session
BothTc ==
  /\ status = "ok"
  /\ \E t \in 1..Len(calls) : calls[t] = "init_paritycheck_tc"
  /\ \E t \in 1..Len(calls) : calls[t] = "init_sparse_paritycheck_checks_tc"

\* row r of ci lists c once if H[r,c] is set, and not at all if it is not
ListsDenseBits(self, hh, ci0, cs0) ==
  \A r \in 0..(self.n - self.k + self.punctured_bits - 1) :
    \A c \in 0..(self.n + self.punctured_bits - 1) :
      Occurrences(ci0, cs0, r, c)
        = (IF MatrixBit(hh, self.n + self.punctured_bits, r, c) THEN 1 ELSE 0)

\* a cell with HI alone has a rotation that is 0 mod m, a cell with both flags
\* a rotation that is not
RegularCell(subm, m) ==
  /\ (HasFlag(subm, HI) /\ ~HasFlag(subm, HP)) => Low6(subm) % m = 0
  /\ (HasFlag(subm, HI) /\ HasFlag(subm, HP)) => Low6(subm) % m # 0

RegularPrototype(prototype, m) ==
  \A u \in 1..Len(prototype) : \A v \in 1..Len(prototype[u]) :
    RegularCell(prototype[u][v], m)

\* C13 as stated: for any prototype contents - any combination of HI and HP,
\* any rotation 0..63 - init_sparse_paritycheck_checks_tc appends c to row r
\* of ci exactly when init_paritycheck_tc leaves H[r,c] set, and once.
C13_TcRefinement_AsStated ==
  BothTc => ListsDenseBits(input.self, h, ci, cs)

\* C13 amended: the same for the prototypes in which every cell with HI alone
\* has a rotation that is a multiple of M and every cell with both flags a
\* rotation that is not.
C13_TcRefinement ==
  (BothTc /\ RegularPrototype(input.prototype, input.self.submatrix_size))
    => ListsDenseBits(input.self, h, ci, cs)

C13_Witness ==
  /\ BothTc
  /\ input.prototype = WithCell(EmptyTcPrototype, 1, 1, HS + 63)
  /\ RegularPrototype(input.prototype, input.self.submatrix_size)
  /\ cs[Len(cs)] = 2 * input.self.submatrix_size
  /\ \E t \in 1..Len(h) : h[t] # {}

\* the private dense TC expander has been applied to the prototype of the
\* session
DenseTc == input.kind = "tc" /\ calls = <<"init_paritycheck_tc">>

Flagged(subm) == HasFlag(subm, HI) \/ HasFlag(subm, HP)

BothFlags(subm) == HasFlag(subm, HI) /\ HasFlag(subm, HP)

\* the number of ones a cell contributes to its m x m block
Contribution(subm, m) ==
  IF ~Flagged(subm) THEN 0
  ELSE IF ~BothFlags(subm) THEN m
  ELSE IF Low6(subm) % m = 0 THEN 0 ELSE 2 * m

\* the bits of the block of cell (u, v): the rotated diagonal for one flag;
\* the rotated diagonal and the diagonal for both flags and a rotation that is
\* not 0 mod m; no bit of the diagonal for both flags and a rotation that is
CellBits(self, hh, subm, u, v) ==
  \A i \in 0..(self.submatrix_size - 1) :
    /\ (Flagged(subm) /\ Contribution(subm, self.submatrix_size) > 0)
         => MatrixBit(hh, self.n, (u * self.submatrix_size) + i,
                      (v * self.submatrix_size)
                        + ((i + Low6(subm)) % self.submatrix_size))
    /\ (BothFlags(subm) /\ Contribution(subm, self.submatrix_size) > 0)
         => MatrixBit(hh, self.n, (u * self.submatrix_size) + i,
                      (v * self.submatrix_size) + i)
    /\ (BothFlags(subm) /\ Contribution(subm, self.submatrix_size) = 0)
         => ~MatrixBit(hh, self.n, (u * self.submatrix_size) + i,
                       (v * self.submatrix_size) + i)

\* the sum of the contributions of the cells
Contributions(prototype, m) ==
  Fold(LAMBDA acc, u :
         acc + Fold(LAMBDA row, v : row + Contribution(prototype[u][v], m),
                    0, 1, Len(prototype[u])),
       0, 1, Len(prototype))

\* C15: after init_paritycheck_tc on a zeroed h, for every cell (u,v) with a
\* flag and rotation r, and every i in [0,M): H[uM+i, vM+((i+r) mod M)] is set,
\* and with both flags H[uM+i, vM+i] is toggled as well.  A cell with one flag
\* contributes M ones, a cell with both flags 2M ones if r mod M # 0 and none
\* if r mod M = 0, an empty cell none: h has these bits and no others (its
\* number of ones is the sum of the contributions).
C15_TcCellBits ==
  DenseTc =>
    /\ \A u \in 0..(Len(input.prototype) - 1) :
         \A v \in 0..(Len(At(input.prototype, u)) - 1) :
           CellBits(input.self, h, At(At(input.prototype, u), v), u, v)
    /\ TotalOnes(h) = Contributions(input.prototype, input.self.submatrix_size)

C15_Witness ==
  /\ DenseTc
  /\ input.self.submatrix_size = 16
  /\ input.prototype = WithCell(WithCell(EmptyTcPrototype, 1, 2, HS + 63), 1, 3, HS + 17)
  /\ TotalOnes(h) = 4 * 16

\* idx and shift of bit j of row i of cell (u, v) are those of row uM+i and
\* column vM+j of a row-major, MSB-first matrix of n columns
PackedAt(self, u, v, i, j) ==
  /\ TcIdx(self, u, v, i, j)
       = (((u * self.submatrix_size) + i) * (self.n \div 32))
           + (((v * self.submatrix_size) + j) \div 32)
  /\ TcShift(self, v, j) = 31 - (((v * self.submatrix_size) + j) % 32)
  /\ TcShift(self, v, j) \in 0..31

\* the sub-matrix columns other than v whose bits lie in the words of v's
SharingWord(self, v) ==
  {v2 \in 0..7 : v2 # v /\ (v2 * self.submatrix_size) \div 32
                             = (v * self.submatrix_size) \div 32}

PackedCell(self, hh, subm, u, v) ==
  /\ \A i \in 0..(self.submatrix_size - 1) : \A j \in 0..(self.submatrix_size - 1) :
       PackedAt(self, u, v, i, j)
  /\ \A v2 \in SharingWord(self, v) :
       \A j \in 0..(self.submatrix_size - 1) : \A j2 \in 0..(self.submatrix_size - 1) :
         TcShift(self, v, j) # TcShift(self, v2, j2)
  /\ Contribution(subm, self.submatrix_size) > 0
       => \A i \in 0..(self.submatrix_size - 1) :
            TcShift(self, v, (i + Low6(subm)) % self.submatrix_size)
              \in At(hh, TcIdx(self, u, v, i, (i + Low6(subm)) % self.submatrix_size))

BothTm ==
  /\ status = "ok"
  /\ \E t \in 1..Len(calls) : calls[t] = "init_paritycheck_tm"
  /\ \E t \in 1..Len(calls) : calls[t] = "init_sparse_paritycheck_checks_tm"

\* the cell of a plane maps row i of its block to column j
PlaneMaps(self, subm, i, j) ==
  IF HasFlag(subm, HP) THEN j = PiDense(self, Low6(subm), i)
  ELSE IF HasFlag(subm, HI) THEN j = i
  ELSE FALSE

\* the planes of the overlay over sub-matrix column c div M whose cell maps
\* row r to column c
PlanesMapping(self, tables, ov, r, c) ==
  {pl \in 0..2 :
     PlaneMaps(self,
               At(At(At(ov.prototype, pl), r \div self.submatrix_size),
                  (c \div self.submatrix_size) - ov.offset),
               r % self.submatrix_size, c % self.submatrix_size)}

\* H[r,c] is set iff the number of planes mapping r to c is odd
OddPlanes(self, tables, hh) ==
  \A r \in 0..(self.n - self.k + self.punctured_bits - 1) :
    \A c \in 0..(self.n + self.punctured_bits - 1) :
      MatrixBit(hh, self.n + self.punctured_bits, r, c)
        <=> Cardinality(PlanesMapping(self, tables,
              TmOverlay(tables, (self.n + self.punctured_bits) \div self.submatrix_size,
                        c \div self.submatrix_size),
              r, c)) % 2 = 1

\* in no block of the prototype does a plane hold a cell after a plane that
\* holds none
NoGap(prototype) ==
  \A v \in 1..3 : \A w \in 1..5 : \A pl \in 1..2 :
    prototype[pl][v][w] = 0 => prototype[pl + 1][v][w] = 0

NoGaps(tables) == NoGap(tables.r12) /\ NoGap(tables.r23) /\ NoGap(tables.r45)

\* C14 as stated: for any contents of the three planes (each cell empty, HI,
\* or HP with a selector), init_sparse_paritycheck_checks_tm lists c in row r
\* iff an odd number of planes maps r to c, which is the set of bits
\* init_paritycheck_tm_sub leaves set in H.
C14_TmRefinement_AsStated ==
  BothTm => /\ OddPlanes(input.self, input.tables, h)
            /\ ListsDenseBits(input.self, h, ci, cs)

\* C14 amended: the same for the overlays in which no plane holds a cell in a
\* block where an earlier plane holds none (the sparse builder stops at the
\* first empty plane), with selectors in 1..26.
C14_TmRefinement ==
  (BothTm /\ NoGaps(input.tables))
    => /\ OddPlanes(input.self, input.tables, h)
       /\ ListsDenseBits(input.self, h, ci, cs)

C14_Witness ==
  /\ BothTm /\ NoGaps(input.tables)
  /\ code = "TM1536"
  /\ input.tables.r23 = WithPlanes(EmptyTmPrototype, 1, 1, <<HP + 1, HI, HP + 26>>)
  /\ cs[Len(cs)] = TotalOnes(h)
  /\ TotalOnes(h) > input.self.submatrix_size
  /\ TotalOnes(h) < 3 * input.self.submatrix_size

Bijection(table, m) ==
  /\ Len(table) = m
  /\ {table[t] : t \in 1..m} = 0..(m - 1)

\* C19: for every theta and phi entries, pi is a bijection of [0,M) onto
\* [0,M) (an HP cell puts one 1 in every row and every column of its
\* sub-matrix), and the dense expander and the sparse builder compute the same
\* pi(i) for every i.
C19_PiBijection ==
  output.kind = "pi" =>
    /\ output.dense # <<>> => Bijection(output.dense, input.m)
    /\ output.sparse # <<>> => Bijection(output.sparse, input.m)
    /\ (output.dense # <<>> /\ output.sparse # <<>>) => output.dense = output.sparse

C19_Witness ==
  /\ output.kind = "pi"
  /\ input.m = 2048 /\ input.theta = 255 /\ input.phi = <<65535, 511, 1, 512>>
  /\ Len(output.dense) = 2048 /\ output.sparse = output.dense
  /\ output.dense[1] = (512 * 3) + 511
  /\ output.dense[2048] = (512 * 2) + 511

\* the calls so far are init_paritycheck alone, and the last has returned
OnlyParitycheck ==
  /\ calls # <<>> /\ status = "ok"
  /\ \A t \in 1..Len(calls) : calls[t] = "init_paritycheck"

\* C21: init_paritycheck clears h itself, so for every code the H it leaves
\* is the same from every prior content of h (all zero, all ones, or the H of
\* an earlier call), and two calls in a row leave the H that one call leaves.
C21_ClearsFirst ==
  OnlyParitycheck =>
    /\ h = init_paritycheck(ModelCode(code), PriorWords(code, 1 - fill, NoBad, "h")).h
    /\ h = init_paritycheck(ModelCode(code), h).h
    /\ Len(calls) = 2
         => h = init_paritycheck(ModelCode(code), PriorWords(code, fill, NoBad, "h")).h

C21_Witness ==
  /\ OnlyParitycheck /\ Len(calls) = 2
  /\ code = "TC256" /\ fill = 1
  /\ TotalOnes(h) = ModelCode(code).paritycheck_sum
  /\ h # PriorWords(code, fill, NoBad, "h")

\* init_sparse_paritycheck_variables was the last call, on ci and cs of the
\* exact lengths with cs[0] = 0, cs non-decreasing and cs[last] =
\* paritycheck_sum, and on vi and vs of the exact lengths
VariablesOnOffsets ==
  /\ calls # <<>> /\ calls[Len(calls)] = "init_sparse_paritycheck_variables"
  /\ bad.buf \notin {"vi", "vs"}
  /\ Len(ci) = sparse_paritycheck_ci_len(ModelCode(code))
  /\ Len(cs) = sparse_paritycheck_cs_len(ModelCode(code))
  /\ Offsets(cs, ModelCode(code).paritycheck_sum)

\* the call returned with vs[n+p] = vi_len and every entry of vi a check
\* index (none is left as allocated, all ones)
VariablesFilled(self) ==
  /\ status = "ok"
  /\ Len(vi) = self.paritycheck_sum
  /\ At(vs, self.n + self.punctured_bits) = Len(vi)
  /\ \A t \in 0..(Len(vi) - 1) : At(vi, t) < (self.n - self.k) + self.punctured_bits

\* C22 as stated: init_sparse_paritycheck_variables finishes with vs[n+p] =
\* vi_len = paritycheck_sum and all entries of vi written, for every ci and cs
\* of the exact lengths with cs[0] = 0, cs non-decreasing and cs[last] =
\* paritycheck_sum, whatever variable indices ci holds.
C22_VariablesFilled_AsStated == VariablesOnOffsets => VariablesFilled(ModelCode(code))

\* C22 amended: the same when every entry of ci is a variable index, below
\* n+p (an entry of n+p or more is matched by no variable and leaves an entry
\* of vi unwritten).
C22_VariablesFilled ==
  (VariablesOnOffsets /\ \A t \in 0..(Len(ci) - 1) :
                           At(ci, t) < ModelCode(code).n + ModelCode(code).punctured_bits)
    => VariablesFilled(ModelCode(code))

C22_Witness ==
  /\ VariablesOnOffsets /\ status = "ok"
  /\ code = "TM1280" /\ fill = 1
  /\ ci = Filled(Len(ci), 0)
  /\ At(vs, 1) = Len(vi) /\ At(vs, Len(vs) - 1) = Len(vi)
  /\ At(vi, Len(vi) - 1) = (ModelCode(code).n - ModelCode(code).k) + ModelCode(code).punctured_bits - 1

\* the columns of the overlay laid at sub-matrix column offset: pwidth of the
\* call of init_paritycheck_tm_sub that lays it
OverlayWidths(self, offset) ==
  {TmSubCalls(self, TmTables)[t].pwidth :
     t \in {x \in 1..Len(TmSubCalls(self, TmTables)) :
              TmSubCalls(self, TmTables)[x].col0 = offset * self.submatrix_size}}

\* C23: with buffers of the exact lengths, for all nine codes, every word
\* index the dense expanders compute is below paritycheck_len and every shift
\* is in 0..31 (no underflow); every prototype row index check >> log2 M of
\* the checks builds is below the number of prototype rows (4 for TC, 3 for
\* TM), and every prototype column index is non-negative and below the width
\* of the prototype (8 for TC; for TM the width of the overlay, at most 5).
C23_IndicesInRange ==
  /\ output.kind = "words"
       => /\ output.idx \subseteq 0..(paritycheck_len(input.self) - 1)
          /\ output.shift \subseteq 0..31
  /\ output.kind = "cells"
       => /\ output.rows \subseteq 0..(output.nrows - 1)
          /\ output.cols \subseteq 0..(output.ncols - 1)
          /\ output.nrows = IF input.self.variant \in TCCodes THEN 4 ELSE 3
          /\ input.kind = "tm_checks"
               => \A c \in output.cols :
                    \E width \in OverlayWidths(input.self, input.variable_block - c) :
                      c < width /\ width <= output.ncols

C23_Witness ==
  /\ output.kind = "words"
  /\ input.self = RealCode("TM1280") /\ input.call = 1
  /\ input.pm = 0 /\ input.v = 2 /\ input.w = 4
  /\ paritycheck_len(input.self) - 1 \in output.idx
  /\ Cardinality(output.shift) = 32
====
